---------------------------- MODULE Spec2Model ----------------------------
(***************************************************************************)
(* Model of the NLQ-to-SQL pipeline: MasterOrchestrator.process_nlq        *)
(* (src/src/orchestration/agent_manager.py) driving the retrying           *)
(* TrinoExecutor (src/src/execution/trino_client.py) and the RedisCache    *)
(* (src/src/caching/cache.py).                                             *)
(*                                                                         *)
(* Text is a sequence of pieces.  SQL drafts and generator responses are   *)
(* sequences of single characters, so that replace / strip / upper /       *)
(* startswith are computed character by character.  Literal parts of       *)
(* f-strings are kept as one piece each.                                   *)
(*                                                                         *)
(* Python values that may be None are tagged records: None, Str(s),        *)
(* List(l), Exc(type, msg).                                                *)
(***************************************************************************)
EXTENDS Integers, Sequences, FiniteSets, TLC

\* ------------------------------------------------------------------------
\* Configuration (src/src/config.py and the settings the code reads)
\* ------------------------------------------------------------------------

\* settings.AGENT_MAX_RETRIES, default value
AGENT_MAX_RETRIES == 2

\* settings.TRINO_MAX_RETRIES, read by _execute_with_retry; deployment value
TRINO_MAX_RETRIES == 2

\* settings.TRINO_RETRY_DELAY, read by _execute_with_retry; deployment value
TRINO_RETRY_DELAY == 1

\* settings.SCHEMA_CACHE_TTL (seconds), read by _retrieve_schema; deployment value
SCHEMA_CACHE_TTL == 3600

\* settings.TRINO_CATALOG / settings.TRINO_SCHEMA, default values
TRINO_CATALOG == "tpch"

TRINO_SCHEMA == "sf1"

\* ------------------------------------------------------------------------
\* Python values
\* ------------------------------------------------------------------------

None == [tag |-> "None"]

Str(s) == [tag |-> "str", s |-> s]

List(l) == [tag |-> "list", l |-> l]

Exc(type, msg) == [tag |-> "exc", type |-> type, msg |-> msg]

\* Python truthiness of a model value (if x: / if not x:)
Truthy(v) ==
    CASE v.tag = "None" -> FALSE
      [] v.tag = "str"  -> v.s # <<>>
      [] v.tag = "list" -> v.l # <<>>
      [] OTHER          -> TRUE

\* ------------------------------------------------------------------------
\* Text operations
\* ------------------------------------------------------------------------

LowerLetters ==
    <<"a","b","c","d","e","f","g","h","i","j","k","l","m",
      "n","o","p","q","r","s","t","u","v","w","x","y","z">>

UpperLetters ==
    <<"A","B","C","D","E","F","G","H","I","J","K","L","M",
      "N","O","P","Q","R","S","T","U","V","W","X","Y","Z">>

Whitespace == {" ", "\n", "\t"}

\* str.startswith
StartsWith(s, p) ==
    /\ Len(s) >= Len(p)
    /\ SubSeq(s, 1, Len(p)) = p

\* str.upper, character by character
UpperChar(c) ==
    IF \E i \in 1..26 : LowerLetters[i] = c
    THEN UpperLetters[CHOOSE i \in 1..26 : LowerLetters[i] = c]
    ELSE c

Upper(s) == [i \in 1..Len(s) |-> UpperChar(s[i])]

\* str.replace(pat, ""): leftmost non-overlapping occurrences removed
RECURSIVE Remove(_, _)
Remove(s, pat) ==
    IF s = <<>> THEN <<>>
    ELSE IF StartsWith(s, pat)
         THEN Remove(SubSeq(s, Len(pat) + 1, Len(s)), pat)
         ELSE <<Head(s)>> \o Remove(Tail(s), pat)

RECURSIVE LStrip(_)
LStrip(s) ==
    IF s # <<>> /\ Head(s) \in Whitespace THEN LStrip(Tail(s)) ELSE s

RECURSIVE RStrip(_)
RStrip(s) ==
    IF s # <<>> /\ s[Len(s)] \in Whitespace
    THEN RStrip(SubSeq(s, 1, Len(s) - 1))
    ELSE s

\* str.strip
Strip(s) == RStrip(LStrip(s))

\* a occurs in s as a contiguous sub-text (Python: a in s)
Contains(s, a) ==
    \E i \in 0..(Len(s) - Len(a)) : SubSeq(s, i + 1, i + Len(a)) = a

\* the piece standing for the single character U+0060 (grave accent)
BQ == "<bq>"

\* the markdown fence openers removed by _run_agent_task
FenceSql == <<BQ, BQ, BQ, "s", "q", "l">>

Fence == <<BQ, BQ, BQ>>

SELECT == <<"S","E","L","E","C","T">>

\* _run_agent_task: response.replace(FenceSql, "").replace(Fence, "").strip()
CleanResponse(response) == Strip(Remove(Remove(response, FenceSql), Fence))

\* variant of PassesGate that only rejects the empty text
PassesGate_NonEmpty(draft) == draft # <<>>

\* _generate_sql / _correct_sql: the structural gate
\*   not (not sql_draft or not sql_draft.upper().startswith("SELECT"))
PassesGate(draft) == draft # <<>> /\ StartsWith(Upper(draft), SELECT)

\* variant of ValidationSql that sends the statement as it is
ValidationSql_Raw(sql) == sql

\* execute_validation: f"SELECT * FROM ({sql}) AS _subquery LIMIT 0"
ValidationSql(sql) ==
    <<"SELECT * FROM (">> \o sql \o <<") AS _subquery LIMIT 0">>

\* ------------------------------------------------------------------------
\* State
\* ------------------------------------------------------------------------

VARIABLES
    \* TrinoExecutor
    conn,            \* self.conn: None or the connection handle
    cpc,             \* _execute_with_retry: "idle", "try" (in the loop), "done"
    call,            \* the running client operation and its statement
    cattempt,        \* _execute_with_retry: loop variable attempt
    last_exception,  \* _execute_with_retry: last_exception
    cret,            \* what the client operation handed back to its caller
    tries,           \* history of the loop iterations of the running call
    \* MasterOrchestrator.process_nlq
    pc,              \* position in process_nlq
    output,          \* the output dictionary
    current_sql,     \* local current_sql
    attempt,         \* loop variable of the validation / correction loop
    valLog,          \* history: one entry per call of execute_validation
    corrLog,         \* history: one entry per call of _correct_sql
    genLog,          \* history: one entry per answer of the generation agent
    nGenerator,      \* history: calls of agent.execute in this run
    execLog,         \* history: one entry per call of execute_query
    trace,           \* history: the collaborator calls of this run, in order
    \* concurrent callers of the one TrinoExecutor (SpecConc)
    th,              \* per caller: position in _execute_with_retry, attempt, result
    \* RedisCache
    cache            \* value stored under the schema key, or None; NoClient
                     \* when the orchestrator was built without a cache client

vars == <<conn, cpc, call, cattempt, last_exception, cret, tries,
          pc, output, current_sql, attempt, valLog, corrLog,
          genLog, nGenerator, execLog, trace, cache, th>>

clientVars == <<conn, cpc, call, cattempt, last_exception, cret, tries, th>>

runVars == <<pc, output, current_sql, attempt, valLog, corrLog,
             genLog, nGenerator, execLog, trace>>

\* ------------------------------------------------------------------------
\* TrinoExecutor (src/src/execution/trino_client.py)
\* ------------------------------------------------------------------------

\* the object trino.dbapi.connect returns
Conn == [tag |-> "conn"]

NoCall == [op |-> "none", arg |-> <<>>, sql |-> <<>>, is_validation |-> FALSE]

NoRet == [kind |-> "none"]

\* return rows, columns, error
Return(rows, columns, error) ==
    [kind |-> "return", rows |-> rows, columns |-> columns, error |-> error]

\* an exception leaving _execute_with_retry
Raise(e) == [kind |-> "raise", exc |-> e]

\* exception classes named in the except clause of _execute_with_retry
CaughtTypes == {"TrinoError", "RequestsConnectionError", "ConnectionError"}

\* variant of IsTransient that retries every caught exception
IsTransient_All(e) == TRUE

\* is_transient = isinstance(e, (RequestsConnectionError, ConnectionError))
IsTransient(e) == e.type \in {"RequestsConnectionError", "ConnectionError"}

\* what cursor.execute / cursor.fetchall can raise
TrinoErrorExc == Exc("TrinoError", <<"Column 'x' cannot be resolved">>)

RequestsConnectionErrorExc == Exc("RequestsConnectionError", <<"Connection refused">>)

\* an exception that is none of the caught classes (e.g. trino's HttpError)
OtherExc == Exc("HttpError", <<"error 503">>)

ExecExceptions == {TrinoErrorExc, RequestsConnectionErrorExc, OtherExc}

\* _connect: raise ConnectionError(f"Could not establish connection to Trino: {e}")
ConnectFailedExc ==
    Exc("ConnectionError",
        <<"Could not establish connection to Trino: ">> \o RequestsConnectionErrorExc.msg)

\* the requests that use the executor at the same time
Threads == {1, 2}

\* no call of _connect yet
NoConnect == [had |-> FALSE, probe |-> None, discarded |-> FALSE, opened |-> FALSE,
              raised |-> None, after |-> None, called |-> FALSE]

\* a request that is not inside _execute_with_retry; cn describes its last
\* call of _connect
ThreadIdle == [pc |-> "idle", attempt |-> 0, ret |-> NoRet, lost |-> FALSE,
               cn |-> NoConnect]

\* None.cursor()
AttributeErrorExc ==
    Exc("AttributeError", <<"'NoneType' object has no attribute 'cursor'">>)

\* line 63: raise ConnectionError("Trino connection not available.")
NotAvailableExc == Exc("ConnectionError", <<"Trino connection not available.">>)

\* variant of WaitTime without the exponential factor
WaitTime_Constant(i) == TRINO_RETRY_DELAY

\* wait_time = settings.TRINO_RETRY_DELAY * (2 ** attempt)
WaitTime(i) == TRINO_RETRY_DELAY * (2 ^ i)

\* columns and row sets the engine can answer a query with
QueryColumns == <<"region", "total">>

QueryRowSets == { <<>>, << <<"EU", 10>> >>, << <<"EU", 10>>, <<"US", 7>> >> }

SchemaColumns == <<"table_name", "column_name", "data_type">>

SchemaRowSets ==
    { <<>>,
      << <<"sales", "region", "varchar">>, <<"sales", "total", "bigint">> >>,
      << <<"sales", "region", "varchar">>, <<"users", "id", "bigint">>,
         <<"users", "name", "varchar">> >> }

RowSetsOf(op) == IF op = "schema" THEN SchemaRowSets ELSE QueryRowSets

ColumnsOf(op) == IF op = "schema" THEN SchemaColumns ELSE QueryColumns

\* entry of tries: one iteration of the loop of _execute_with_retry
Try(hadConn, connected, stmt, fetched, exc, slept, wait, discarded) ==
    [hadConn |-> hadConn, connected |-> connected, stmt |-> stmt,
     fetched |-> fetched, exc |-> exc, slept |-> slept, wait |-> wait,
     discarded |-> discarded]

\* a caller enters _execute_with_retry(sql, is_validation) for the public
\* operation op called with arg
BeginCall(op, arg, sql, is_validation) ==
    /\ cpc' = "try"
    /\ call' = [op |-> op, arg |-> arg, sql |-> sql, is_validation |-> is_validation]
    /\ cattempt' = 0
    /\ last_exception' = None
    /\ cret' = NoRet
    /\ tries' = <<>>
    /\ conn' = conn
    /\ th' = th

\* the caller has taken the result: the client is at rest again
EndCall ==
    /\ cpc' = "idle"
    /\ call' = NoCall
    /\ cattempt' = 0
    /\ last_exception' = None
    /\ cret' = NoRet
    /\ tries' = <<>>
    /\ conn' = conn
    /\ th' = th

\* variant of ShouldRetry without the bound on the attempt number
ShouldRetry_Unbounded(e, i) == IsTransient(e)

\* should the except branch retry?  is_transient and attempt < TRINO_MAX_RETRIES
ShouldRetry(e, i) == IsTransient(e) /\ i < TRINO_MAX_RETRIES

\* variant of ConnAfterSleep that keeps the connection handle
ConnAfterSleep_Keep(e, c) == c

\* self.conn after the sleep:
\*   if isinstance(e, (RequestsConnectionError, ConnectionError)): self.conn = None
ConnAfterSleep(e, c) ==
    IF e.type \in {"RequestsConnectionError", "ConnectionError"} THEN None ELSE c

\* for attempt in range(settings.TRINO_MAX_RETRIES + 1)
InRetryRange(i) == i < TRINO_MAX_RETRIES + 1

\* variant of OnExecException that also drops the connection handle when it
\* returns the error
OnExecException_DropsOnReturn(e, hadConn, connected, stmt, connAfter) ==
    IF e.type \notin CaughtTypes
    THEN \* not caught: the exception leaves _execute_with_retry
         /\ cpc' = "done"
         /\ cret' = Raise(e)
         /\ conn' = connAfter
         /\ tries' = Append(tries, Try(hadConn, connected, stmt, FALSE, e.type,
                                       FALSE, 0, FALSE))
         /\ UNCHANGED <<cattempt, last_exception, call>>
    ELSE IF ShouldRetry(e, cattempt)
    THEN \* sleep, drop the connection; then the next iteration or, when the
         \* range is used up, return None, None, last_exception
         /\ cattempt' = cattempt + 1
         /\ last_exception' = e
         /\ conn' = ConnAfterSleep(e, connAfter)
         /\ tries' = Append(tries, Try(hadConn, connected, stmt, FALSE, e.type,
                                       TRUE, WaitTime(cattempt),
                                       ConnAfterSleep(e, connAfter) = None))
         /\ IF InRetryRange(cattempt + 1)
            THEN cpc' = "try" /\ cret' = cret
            ELSE cpc' = "done" /\ cret' = Return(None, None, e)
         /\ call' = call
    ELSE \* return None, None, e
         /\ cpc' = "done"
         /\ cret' = Return(None, None, e)
         /\ last_exception' = e
         /\ conn' = None
         /\ tries' = Append(tries, Try(hadConn, connected, stmt, FALSE, e.type,
                                       FALSE, 0, FALSE))
         /\ UNCHANGED <<cattempt, call>>

\* the except clause of _execute_with_retry for exception e raised in an
\* iteration that leaves the connection connAfter when no retry follows
OnExecException(e, hadConn, connected, stmt, connAfter) ==
    IF e.type \notin CaughtTypes
    THEN \* not caught: the exception leaves _execute_with_retry
         /\ cpc' = "done"
         /\ cret' = Raise(e)
         /\ conn' = connAfter
         /\ tries' = Append(tries, Try(hadConn, connected, stmt, FALSE, e.type,
                                       FALSE, 0, FALSE))
         /\ UNCHANGED <<cattempt, last_exception, call>>
    ELSE IF ShouldRetry(e, cattempt)
    THEN \* sleep, drop the connection; then the next iteration or, when the
         \* range is used up, return None, None, last_exception
         /\ cattempt' = cattempt + 1
         /\ last_exception' = e
         /\ conn' = ConnAfterSleep(e, connAfter)
         /\ tries' = Append(tries, Try(hadConn, connected, stmt, FALSE, e.type,
                                       TRUE, WaitTime(cattempt),
                                       ConnAfterSleep(e, connAfter) = None))
         /\ IF InRetryRange(cattempt + 1)
            THEN cpc' = "try" /\ cret' = cret
            ELSE cpc' = "done" /\ cret' = Return(None, None, e)
         /\ call' = call
    ELSE \* return None, None, e
         /\ cpc' = "done"
         /\ cret' = Return(None, None, e)
         /\ last_exception' = e
         /\ conn' = connAfter
         /\ tries' = Append(tries, Try(hadConn, connected, stmt, FALSE, e.type,
                                       FALSE, 0, FALSE))
         /\ UNCHANGED <<cattempt, call>>

\* iteration: self.conn is missing and _connect fails; _connect sets
\* self.conn = None and raises ConnectionError, caught by the except clause
AttemptConnectFails ==
    /\ cpc = "try"
    /\ ~Truthy(conn)
    /\ OnExecException(ConnectFailedExc, FALSE, TRUE, None, None)
    /\ UNCHANGED <<runVars, cache, th>>

\* iteration: a connection is there (kept, or opened by _connect) and
\* cursor.execute (or fetchall) raises e
AttemptExecuteRaises(e) ==
    /\ cpc = "try"
    /\ OnExecException(e, Truthy(conn), ~Truthy(conn), Str(call.sql), Conn)
    /\ UNCHANGED <<runVars, cache, th>>

\* iteration: a connection is there (kept, or opened by _connect) and the
\* statement runs; validation returns without fetching, otherwise rows are fetched
AttemptExecuteOk(rows) ==
    /\ cpc = "try"
    /\ cpc' = "done"
    /\ conn' = Conn
    /\ cret' = IF call.is_validation
               THEN Return(None, None, None)
               ELSE Return(List(rows), List(ColumnsOf(call.op)), None)
    /\ tries' = Append(tries, Try(Truthy(conn), ~Truthy(conn), Str(call.sql),
                                  ~call.is_validation, "ok", FALSE, 0, FALSE))
    /\ UNCHANGED <<cattempt, last_exception, call>>
    /\ UNCHANGED <<runVars, cache, th>>

\* execute_validation(sql): the statement is wrapped and run without fetching
ExecuteValidation(sql) == BeginCall("validation", sql, ValidationSql(sql), TRUE)

\* execute_query(sql)
ExecuteQuery(sql) == BeginCall("query", sql, sql, FALSE)

\* type(e).__name__: requests' ConnectionError is imported under an alias
TypeName(e) ==
    IF e.type = "RequestsConnectionError" THEN "ConnectionError" ELSE e.type

\* dict(zip(columns, row)): a later duplicate column name wins
Zip(columns, row) ==
    LET n == IF Len(columns) < Len(row) THEN Len(columns) ELSE Len(row)
        last(c) == CHOOSE i \in 1..n :
                      /\ columns[i] = c
                      /\ \A j \in (i + 1)..n : columns[j] # c
    IN  [c \in {columns[i] : i \in 1..n} |-> row[last(c)]]

\* execute_query: what it returns for the result of _execute_with_retry
ExecuteQueryResult(r) ==
    IF Truthy(r.error) THEN [results |-> List(<<>>), error |-> r.error]
    ELSE IF r.rows = None \/ r.columns = None
    THEN [results |-> List(<<>>),
          error |-> Exc("ValueError",
                        <<"Execution succeeded but no rows/columns returned unexpectedly.">>)]
    ELSE [results |-> List([i \in 1..Len(r.rows.l) |-> Zip(r.columns.l, r.rows.l[i])]),
          error |-> None]

\* get_schema_info: the introspection statement
SchemaSql(catalog, schema) ==
    <<"SELECT table_name, column_name, data_type FROM ", catalog,
      ".information_schema.columns WHERE table_schema = '", schema,
      "' ORDER BY table_name, ordinal_position;">>

\* str.rstrip(',\n')
RECURSIVE RStripCommaNewline(_)
RStripCommaNewline(s) ==
    IF s # <<>> /\ s[Len(s)] \in {",", "\n"}
    THEN RStripCommaNewline(SubSeq(s, 1, Len(s) - 1))
    ELSE s

\* get_schema_info: the loop folding the rows into schema_str; the state of
\* the fold is schema_str and current_table
RECURSIVE FoldRows(_, _, _, _)
FoldRows(rows, schema, schema_str, current_table) ==
    IF rows = <<>> THEN [schema_str |-> schema_str, current_table |-> current_table]
    ELSE LET row == Zip(SchemaColumns, Head(rows))
             newTable == Str(<<row["table_name"]>>) # current_table
             closed == IF newTable /\ current_table # None
                       THEN schema_str \o <<")", ";", "\n", "\n">>
                       ELSE schema_str
             opened == IF newTable
                       THEN closed \o <<"TABLE ", schema, ".", row["table_name"], " (", "\n">>
                       ELSE closed
             line   == opened \o <<"  ", row["column_name"], " ", row["data_type"], ",", "\n">>
         IN  FoldRows(Tail(rows), schema, line,
                      IF newTable THEN Str(<<row["table_name"]>>) ELSE current_table)

\* variant of SchemaText that leaves the last block open
SchemaText_Unclosed(rows, schema) ==
    FoldRows(rows, schema, <<>>, None).schema_str

\* get_schema_info: the text for a non-empty row sequence
SchemaText(rows, schema) ==
    LET f == FoldRows(rows, schema, <<>>, None)
    IN  IF f.current_table # None
        THEN RStripCommaNewline(f.schema_str) \o <<"\n", ")", ";">>
        ELSE f.schema_str

\* target or setting: the argument when it is given (neither None nor
\* empty, both written ""), else the setting
Resolve(target, setting) == IF target # "" THEN target ELSE setting

\* get_schema_info with catalog and schema as resolved: without catalog or
\* schema it returns (None, ValueError) at once, otherwise the introspection
\* statement is run
GetSchemaInfo(catalog, schema) ==
    IF catalog = "" \/ schema = ""
    THEN /\ cpc' = "done"
         /\ call' = [op |-> "schema", arg |-> <<catalog, schema>>, sql |-> <<>>,
                     is_validation |-> FALSE]
         /\ cret' = [kind |-> "early", schema_str |-> None,
                     error |-> Exc("ValueError",
                         <<"Catalog and schema must be specified either in config or request to fetch schema.">>)]
         /\ UNCHANGED <<conn, cattempt, last_exception, tries, th>>
    ELSE BeginCall("schema", <<catalog, schema>>, SchemaSql(catalog, schema), FALSE)

\* variant of SchemaInfoResult that reports a schema without tables as an error
SchemaInfoResult_EmptyAsError(r, schema) ==
    IF r.kind = "early" THEN [schema_str |-> r.schema_str, error |-> r.error]
    ELSE IF Truthy(r.error) THEN [schema_str |-> None, error |-> r.error]
    ELSE IF ~Truthy(r.rows)
    THEN [schema_str |-> None, error |-> Exc("ValueError", <<"No tables found">>)]
    ELSE [schema_str |-> Str(SchemaText(r.rows.l, schema)), error |-> None]

\* get_schema_info: what it returns for the result of _execute_with_retry
SchemaInfoResult(r, schema) ==
    IF r.kind = "early" THEN [schema_str |-> r.schema_str, error |-> r.error]
    ELSE IF Truthy(r.error) THEN [schema_str |-> None, error |-> r.error]
    ELSE IF ~Truthy(r.rows) THEN [schema_str |-> Str(<<>>), error |-> None]
    ELSE [schema_str |-> Str(SchemaText(r.rows.l, schema)), error |-> None]

\* ------------------------------------------------------------------------
\* MasterOrchestrator (src/src/orchestration/agent_manager.py)
\* ------------------------------------------------------------------------

OrchestrationError(msg) == Exc("OrchestrationError", msg)

\* process_nlq: the output dictionary before the try block
InitialOutput(nlq) ==
    [status |-> "FAILED", nlq |-> nlq, analysis_hints |-> None,
     schema_info |-> None, sql_generated |-> None, sql_final |-> None,
     validation_error |-> None, execution_error |-> None,
     explanation |-> None, results |-> None, error_message |-> None]

\* variant of Handled without the clause "except Exception"
Handled_NoCatchAll(out, e) ==
    IF e.type = "OrchestrationError"
    THEN [pc |-> "returned", output |-> [out EXCEPT !.error_message = Str(e.msg)]]
    ELSE [pc |-> "raised", output |-> out]

\* process_nlq: the two except clauses; the state is returned afterwards
Handled(out, e) ==
    IF e.type = "OrchestrationError"
    THEN [pc |-> "returned", output |-> [out EXCEPT !.error_message = Str(e.msg)]]
    ELSE [pc |-> "returned",
          output |-> [out EXCEPT !.error_message =
                          Str(<<"Unexpected server error: ", TypeName(e)>>)]]

\* variant of Fail that hands back a fresh output carrying only the message
Fail_ClearsDrafts(out, e) ==
    /\ pc' = Handled(out, e).pc
    /\ output' = [Handled(out, e).output EXCEPT !.sql_generated = None,
                                                !.sql_final = None]

\* exception e is raised inside the try block of process_nlq with output out
Fail(out, e) ==
    /\ pc' = Handled(out, e).pc
    /\ output' = Handled(out, e).output

\* the questions asked
NLQs == { <<"total revenue by region">> }

\* what agent.execute answers to the generation prompt
GenResponses ==
    { <<BQ,BQ,BQ,"s","q","l","\n","S","E","L","E","C","T"," ","1","\n",BQ,BQ,BQ>>,
      <<" ","s","e","l","e","c","t"," ","a">>,
      <<"D","R","O","P"," ","t">>,
      <<BQ,BQ,BQ," ",BQ,BQ,BQ>>,
      <<>> }

\* what agent.execute answers to the correction prompt
CorrResponses ==
    { <<"S","E","L","E","C","T"," ","2">>,
      <<BQ,BQ,BQ,"S","e","l","e","c","t"," ","3",BQ,BQ,BQ,"\n">>,
      <<"s","o","r","r","y">> }

\* what agent.execute answers to the explanation prompt
ExplainResponses == { <<"r","u","n","s">> }

\* _load_prompt fails: OrchestrationError(f"Prompt generation failed for {template_name}")
PromptError(template_name) ==
    OrchestrationError(<<"Prompt generation failed for ", template_name>>)

\* _run_agent_task fails: OrchestrationError(f"Failed to execute {agent_name} task: {str(e)}")
AgentError(agent_name) ==
    OrchestrationError(<<"Failed to execute ", agent_name, " task: ", "model unavailable">>)

\* _validate_sql: f"Trino Validation Error: {type(e).__name__} - {str(e)}"
ValidationErrorMsg(e) ==
    <<"Trino Validation Error: ", TypeName(e), " - ">> \o e.msg

\* variant of ExecutionErrorMsg that drops the error reported by the client
ExecutionErrorMsg_NoDetail(e) ==
    <<"Trino Execution Error">>

\* _execute_sql: f"Trino Execution Error: {type(error).__name__} - {str(error)}"
ExecutionErrorMsg(e) ==
    <<"Trino Execution Error: ", TypeName(e), " - ">> \o e.msg

\* variant of ExhaustedMsg that does not quote the last validation error
ExhaustedMsg_NoLastError(validation_error) ==
    <<"SQL could not be validated after ", ToString(AGENT_MAX_RETRIES + 1),
      " attempts.">>

\* process_nlq: the message of the OrchestrationError raised when the loop is exhausted
ExhaustedMsg(validation_error) ==
    <<"SQL could not be validated after ", ToString(AGENT_MAX_RETRIES + 1),
      " attempts. Last error: ">> \o validation_error

\* _retrieve_schema: f"schema:{settings.TRINO_CATALOG}:{settings.TRINO_SCHEMA}"
CacheKey == <<"schema:", TRINO_CATALOG, ":", TRINO_SCHEMA>>

\* cache_client is None: RedisCache() failed when the module was loaded
NoClient == [tag |-> "noclient"]

\* if self.cache:
HasCache == cache # NoClient

\* entry of trace: a call of a collaborator in a stage of the run, with its
\* outcome and (for cache.set) its arguments
Ev(op, stage, res, arg) == [op |-> op, stage |-> stage, res |-> res, arg |-> arg]

\* the prompt was rendered and the text generator was called, with outcome res
AgentCall(stage, res) ==
    <<Ev("render", stage, "ok", None), Ev("agent", stage, res, None)>>

\* first characters of a JSON document as json.loads accepts it (after
\* leading whitespace): object, array, string, number, true/false/null, and
\* the NaN / Infinity literals Python accepts
JsonFirst ==
    {"{", "[", "\"", "-", "0", "1", "2", "3", "4", "5", "6", "7", "8", "9",
     "t", "f", "n", "N", "I"}

\* json.loads(text): a text whose first character cannot begin a JSON
\* document raises JSONDecodeError; the other texts are taken as decoded to
\* a value that is not the text itself (every text the program stores under
\* the schema key is empty or begins with "TABLE ")
JsonLoads(text) ==
    IF LStrip(text) # <<>> /\ Head(LStrip(text)) \in JsonFirst
    THEN [tag |-> "json", of |-> text]
    ELSE Exc("JSONDecodeError", <<"Expecting value">>)

\* variant of CacheGet without the fallback to the plain text when the value
\* is not JSON
CacheGet_NoFallback(stored) ==
    IF Truthy(stored)
    THEN IF JsonLoads(stored.s).tag = "exc" THEN None ELSE JsonLoads(stored.s)
    ELSE None

\* RedisCache.get for the stored value: a truthy value is decoded as JSON,
\* or returned as it is when that raises JSONDecodeError; a falsy value
\* (no value, or the empty text) is a miss
CacheGet(stored) ==
    IF Truthy(stored)
    THEN IF JsonLoads(stored.s).tag = "exc" THEN stored ELSE JsonLoads(stored.s)
    ELSE None

Init ==
    /\ conn = Conn
    /\ cpc = "idle"
    /\ call = NoCall
    /\ cattempt = 0
    /\ last_exception = None
    /\ cret = NoRet
    /\ tries = <<>>
    /\ pc = "idle"
    /\ output = InitialOutput(<<>>)
    /\ current_sql = <<>>
    /\ attempt = 0
    /\ valLog = <<>>
    /\ corrLog = <<>>
    /\ genLog = <<>>
    /\ nGenerator = 0
    /\ execLog = <<>>
    /\ trace = <<>>
    /\ cache \in {None, NoClient}
    /\ th = [t \in Threads |-> ThreadIdle]

\* process_nlq is called: lines up to the try block
ProcessNlq(nlq) ==
    /\ pc \in {"idle", "returned"}
    /\ pc' = "schema"
    /\ output' = InitialOutput(nlq)
    /\ current_sql' = <<>>
    /\ attempt' = 0
    /\ valLog' = <<>>
    /\ corrLog' = <<>>
    /\ genLog' = <<>>
    /\ nGenerator' = 0
    /\ execLog' = <<>>
    /\ trace' = <<>>
    /\ UNCHANGED <<clientVars, cache>>

\* variant of RetrieveSchemaHit that adopts whatever text is stored, the
\* empty text included
RetrieveSchemaHit_AdoptsEmpty ==
    /\ pc = "schema"
    /\ HasCache
    /\ cache # None
    /\ trace' = trace \o <<Ev("cache.get", "schema", "hit", cache)>>
    /\ output' = [output EXCEPT !.schema_info = cache]
    /\ pc' = "generate"
    /\ UNCHANGED <<clientVars, cache, current_sql, attempt, valLog, corrLog,
                   genLog, nGenerator, execLog>>

\* _retrieve_schema: the cache has a truthy value; it becomes schema_info
RetrieveSchemaHit ==
    /\ pc = "schema"
    /\ HasCache
    /\ trace' = trace \o <<Ev("cache.get", "schema", "hit", CacheGet(cache))>>
    /\ Truthy(CacheGet(cache))
    /\ output' = [output EXCEPT !.schema_info = CacheGet(cache)]
    /\ pc' = "generate"
    /\ UNCHANGED <<clientVars, cache, current_sql, attempt, valLog, corrLog,
                   genLog, nGenerator, execLog>>

\* _retrieve_schema: cache.get answers None (no value, or a Redis error when
\* redisFails), or there is no cache client; get_schema_info is called
RetrieveSchemaMiss(redisFails) ==
    /\ pc = "schema"
    /\ IF HasCache
       THEN /\ redisFails \/ ~Truthy(CacheGet(cache))
            /\ trace' = trace \o
                  <<Ev("cache.get", "schema", IF redisFails THEN "error" ELSE "miss", cache),
                    Ev("get_schema_info", "schema", "call", None)>>
       ELSE /\ ~redisFails
            /\ trace' = Append(trace, Ev("get_schema_info", "schema", "call", None))
    /\ GetSchemaInfo(TRINO_CATALOG, TRINO_SCHEMA)
    /\ pc' = "schemaCall"
    /\ UNCHANGED <<cache, output, current_sql, attempt, valLog, corrLog,
                   genLog, nGenerator, execLog>>

\* _retrieve_schema: cache.get lets through an exception that is not a
\* RedisError (a stored value that cannot be decoded)
RetrieveSchemaCacheRaises ==
    /\ pc = "schema"
    /\ HasCache
    /\ trace' = trace \o <<Ev("cache.get", "schema", "raise", None)>>
    /\ Fail(output, Exc("UnicodeDecodeError", <<"invalid start byte">>))
    /\ UNCHANGED <<clientVars, cache, current_sql, attempt, valLog, corrLog,
                   genLog, nGenerator, execLog>>

\* get_schema_info let an exception through
SchemaRaised ==
    /\ pc = "schemaCall" /\ cpc = "done" /\ cret.kind = "raise"
    /\ trace' = Append(trace, Ev("get_schema_info", "schema", "raise", None))
    /\ Fail(output, cret.exc)
    /\ EndCall
    /\ UNCHANGED <<cache, current_sql, attempt, valLog, corrLog, genLog, nGenerator, execLog>>

\* get_schema_info returned an error: _retrieve_schema raises
SchemaFailed ==
    /\ pc = "schemaCall" /\ cpc = "done" /\ cret.kind # "raise"
    /\ trace' = Append(trace, Ev("get_schema_info", "schema", "error", None))
    /\ LET r == SchemaInfoResult(cret, TRINO_SCHEMA)
       IN  /\ Truthy(r.error)
           /\ Fail(output, OrchestrationError(
                      <<"Schema retrieval failed: ">> \o r.error.msg))
    /\ EndCall
    /\ UNCHANGED <<cache, current_sql, attempt, valLog, corrLog, genLog, nGenerator, execLog>>

\* variant of SchemaFetched that does not write the text to the cache
SchemaFetched_NoSet(redisFails) ==
    /\ pc = "schemaCall" /\ cpc = "done" /\ cret.kind # "raise"
    /\ LET r == SchemaInfoResult(cret, TRINO_SCHEMA)
       IN  /\ ~Truthy(r.error)
           /\ cache' = cache
           /\ trace' = Append(trace, Ev("get_schema_info", "schema", "ok", r.schema_str))
           /\ IF Truthy(r.schema_str)
              THEN /\ output' = [output EXCEPT !.schema_info = r.schema_str]
                   /\ pc' = "generate"
              ELSE Fail([output EXCEPT !.schema_info = r.schema_str],
                        OrchestrationError(<<"Failed to retrieve a valid schema.">>))
    /\ EndCall
    /\ UNCHANGED <<current_sql, attempt, valLog, corrLog, genLog, nGenerator, execLog>>

\* get_schema_info returned a text: cache.set (which swallows a Redis error
\* when redisFails), then process_nlq tests the text
SchemaFetched(redisFails) ==
    /\ pc = "schemaCall" /\ cpc = "done" /\ cret.kind # "raise"
    /\ LET r == SchemaInfoResult(cret, TRINO_SCHEMA)
       IN  /\ ~Truthy(r.error)
           /\ HasCache \/ ~redisFails
           /\ cache' = IF HasCache /\ ~redisFails THEN r.schema_str ELSE cache
           /\ trace' = trace \o
                  <<Ev("get_schema_info", "schema", "ok", r.schema_str)>> \o
                  (IF HasCache
                   THEN <<Ev("cache.set", "schema", IF redisFails THEN "fail" ELSE "ok",
                             [key |-> CacheKey, value |-> r.schema_str,
                              ttl |-> SCHEMA_CACHE_TTL])>>
                   ELSE <<>>)
           /\ IF Truthy(r.schema_str)
              THEN /\ output' = [output EXCEPT !.schema_info = r.schema_str]
                   /\ pc' = "generate"
              ELSE Fail([output EXCEPT !.schema_info = r.schema_str],
                        OrchestrationError(<<"Failed to retrieve a valid schema.">>))
    /\ EndCall
    /\ UNCHANGED <<current_sql, attempt, valLog, corrLog, genLog, nGenerator, execLog>>

\* the TTL of the cached schema runs out
CacheExpire ==
    /\ HasCache
    /\ cache # None
    /\ cache' = None
    /\ UNCHANGED <<clientVars, runVars>>

\* for attempt in range(settings.AGENT_MAX_RETRIES + 1): is a in the range?
InRange(a) == a < AGENT_MAX_RETRIES + 1

\* variant of NextAttempt: the loop variable does not advance
NextAttempt_Stuck(a) == a

\* for attempt in range(...): the value of attempt in the next iteration
NextAttempt(a) == a + 1

\* if attempt < settings.AGENT_MAX_RETRIES: a failed attempt is followed by a correction
CanCorrect(a) == a < AGENT_MAX_RETRIES

\* str() of a value inside an f-string
Text(v) == IF v = None THEN <<"None">> ELSE v.s

\* _generate_sql: _load_prompt raises
GeneratePromptFails ==
    /\ pc = "generate"
    /\ trace' = trace \o <<Ev("render", "generate", "fail", None)>>
    /\ Fail(output, PromptError("sql_generator.j2"))
    /\ UNCHANGED <<clientVars, cache, current_sql, attempt, valLog, corrLog,
                   genLog, nGenerator, execLog>>

\* _generate_sql: the text generator raises inside _run_agent_task
GenerateAgentFails ==
    /\ pc = "generate"
    /\ trace' = trace \o AgentCall("generate", "fail")
    /\ nGenerator' = nGenerator + 1
    /\ Fail(output, AgentError("SQL Generator"))
    /\ UNCHANGED <<clientVars, cache, current_sql, attempt, valLog, corrLog,
                   genLog, execLog>>

\* _generate_sql: the generator answers; the cleaned answer goes through the
\* gate; a passing draft becomes current_sql and sql_generated and the loop
\* is entered
Generate(response) ==
    /\ pc = "generate"
    /\ trace' = trace \o AgentCall("generate", "ok")
    /\ nGenerator' = nGenerator + 1
    /\ genLog' = Append(genLog, response)
    /\ LET sql_draft == CleanResponse(response)
       IN  IF PassesGate(sql_draft)
           THEN /\ current_sql' = sql_draft
                /\ output' = [output EXCEPT !.sql_generated = Str(sql_draft)]
                /\ attempt' = 0
                /\ pc' = IF InRange(0) THEN "validate" ELSE "execute"
           ELSE /\ Fail(output, OrchestrationError(
                           <<"SQL Generation failed to produce valid SQL structure.">>))
                /\ UNCHANGED <<current_sql, attempt>>
    /\ UNCHANGED <<clientVars, cache, valLog, corrLog, execLog>>

\* the loop body begins: _validate_sql calls execute_validation(current_sql)
Validate ==
    /\ pc = "validate"
    /\ trace' = trace \o <<Ev("execute_validation", "validate", "call", None)>>
    /\ ExecuteValidation(current_sql)
    /\ valLog' = Append(valLog, [draft |-> current_sql, result |-> "pending",
                                 error |-> None])
    /\ pc' = "validateCall"
    /\ UNCHANGED <<cache, output, current_sql, attempt, corrLog, genLog,
                   nGenerator, execLog>>

\* the last entry of valLog gets its result
Logged(result, error) ==
    [valLog EXCEPT ![Len(valLog)] = [@ EXCEPT !.result = result, !.error = error]]

\* execute_validation let an exception through
ValidateRaised ==
    /\ pc = "validateCall" /\ cpc = "done" /\ cret.kind = "raise"
    /\ trace' = trace
    /\ Fail(output, cret.exc)
    /\ valLog' = Logged("raised", None)
    /\ EndCall
    /\ UNCHANGED <<cache, current_sql, attempt, corrLog, genLog, nGenerator, execLog>>

\* variant of ValidateSucceeded that keeps the validation_error of the
\* attempt before
ValidateSucceeded_KeepsError ==
    /\ pc = "validateCall" /\ cpc = "done" /\ cret.kind = "return"
    /\ trace' = trace
    /\ ~Truthy(cret.error)
    /\ output' = [output EXCEPT !.sql_final = Str(current_sql)]
    /\ valLog' = Logged("valid", None)
    /\ pc' = "execute"
    /\ EndCall
    /\ UNCHANGED <<cache, current_sql, attempt, corrLog, genLog, nGenerator, execLog>>

\* variant of ValidateSucceeded without the break: the loop goes on
ValidateSucceeded_NoBreak ==
    /\ pc = "validateCall" /\ cpc = "done" /\ cret.kind = "return"
    /\ trace' = trace
    /\ ~Truthy(cret.error)
    /\ output' = [output EXCEPT !.validation_error = None,
                                !.sql_final = Str(current_sql)]
    /\ valLog' = Logged("valid", None)
    /\ attempt' = NextAttempt(attempt)
    /\ pc' = IF InRange(NextAttempt(attempt)) THEN "validate" ELSE "execute"
    /\ EndCall
    /\ UNCHANGED <<cache, current_sql, corrLog, genLog, nGenerator, execLog>>

\* execute_validation returned no error: sql_final is set, break
ValidateSucceeded ==
    /\ pc = "validateCall" /\ cpc = "done" /\ cret.kind = "return"
    /\ trace' = trace
    /\ ~Truthy(cret.error)
    /\ output' = [output EXCEPT !.validation_error = None,
                                !.sql_final = Str(current_sql)]
    /\ valLog' = Logged("valid", None)
    /\ pc' = "execute"
    /\ EndCall
    /\ UNCHANGED <<cache, current_sql, attempt, corrLog, genLog, nGenerator, execLog>>

\* variant of ValidateFailedRetry that treats a connection error as fatal
\* instead of handing it to the corrector
ValidateFailedRetry_ConnectionFatal ==
    /\ pc = "validateCall" /\ cpc = "done" /\ cret.kind = "return"
    /\ trace' = trace
    /\ Truthy(cret.error)
    /\ CanCorrect(attempt)
    /\ IF IsTransient(cret.error)
       THEN Fail([output EXCEPT !.validation_error = Str(ValidationErrorMsg(cret.error))],
                 OrchestrationError(ValidationErrorMsg(cret.error)))
       ELSE /\ output' = [output EXCEPT !.validation_error = Str(ValidationErrorMsg(cret.error))]
            /\ pc' = "correct"
    /\ valLog' = Logged("invalid", cret.error)
    /\ EndCall
    /\ UNCHANGED <<cache, current_sql, attempt, corrLog, genLog, nGenerator, execLog>>

\* variant of ValidateFailedRetry that stores the rejected draft as sql_final
ValidateFailedRetry_SetsFinal ==
    /\ pc = "validateCall" /\ cpc = "done" /\ cret.kind = "return"
    /\ trace' = trace
    /\ Truthy(cret.error)
    /\ CanCorrect(attempt)
    /\ output' = [output EXCEPT !.validation_error = Str(ValidationErrorMsg(cret.error)),
                                !.sql_final = Str(current_sql)]
    /\ valLog' = Logged("invalid", cret.error)
    /\ pc' = "correct"
    /\ EndCall
    /\ UNCHANGED <<cache, current_sql, attempt, corrLog, genLog, nGenerator, execLog>>

\* execute_validation returned an error and a correction is allowed: the
\* error is stored and the corrector comes next
ValidateFailedRetry ==
    /\ pc = "validateCall" /\ cpc = "done" /\ cret.kind = "return"
    /\ trace' = trace
    /\ Truthy(cret.error)
    /\ CanCorrect(attempt)
    /\ output' = [output EXCEPT !.validation_error = Str(ValidationErrorMsg(cret.error))]
    /\ valLog' = Logged("invalid", cret.error)
    /\ pc' = "correct"
    /\ EndCall
    /\ UNCHANGED <<cache, current_sql, attempt, corrLog, genLog, nGenerator, execLog>>

\* execute_validation returned an error and no correction is allowed: the
\* error is stored and OrchestrationError is raised
ValidateExhausted ==
    /\ pc = "validateCall" /\ cpc = "done" /\ cret.kind = "return"
    /\ trace' = trace
    /\ Truthy(cret.error)
    /\ ~CanCorrect(attempt)
    /\ Fail([output EXCEPT !.validation_error = Str(ValidationErrorMsg(cret.error))],
            OrchestrationError(ExhaustedMsg(ValidationErrorMsg(cret.error))))
    /\ valLog' = Logged("invalid", cret.error)
    /\ EndCall
    /\ UNCHANGED <<cache, current_sql, attempt, corrLog, genLog, nGenerator, execLog>>

\* _correct_sql: _load_prompt raises
CorrectPromptFails ==
    /\ pc = "correct"
    /\ trace' = trace \o <<Ev("render", "correct", "fail", None)>>
    /\ Fail(output, PromptError("sql_corrector.j2"))
    /\ corrLog' = Append(corrLog, [result |-> "prompt", sql |-> None])
    /\ UNCHANGED <<clientVars, cache, current_sql, attempt, valLog, genLog,
                   nGenerator, execLog>>

\* variant of CorrectAgentFails that swallows the failure: the draft is kept
\* and the loop goes on
CorrectAgentFails_Continues ==
    /\ pc = "correct"
    /\ trace' = trace \o AgentCall("correct", "fail")
    /\ nGenerator' = nGenerator + 1
    /\ output' = output
    /\ attempt' = NextAttempt(attempt)
    /\ pc' = IF InRange(NextAttempt(attempt)) THEN "validate" ELSE "execute"
    /\ corrLog' = Append(corrLog, [result |-> "agent", sql |-> None])
    /\ UNCHANGED <<clientVars, cache, current_sql, valLog, genLog, execLog>>

\* _correct_sql: the text generator raises inside _run_agent_task
CorrectAgentFails ==
    /\ pc = "correct"
    /\ trace' = trace \o AgentCall("correct", "fail")
    /\ nGenerator' = nGenerator + 1
    /\ Fail(output, AgentError("SQL Corrector"))
    /\ corrLog' = Append(corrLog, [result |-> "agent", sql |-> None])
    /\ UNCHANGED <<clientVars, cache, current_sql, attempt, valLog, genLog, execLog>>

\* variant of Correct that reports the corrected text in sql_generated but
\* keeps validating the old draft
Correct_StaleDraft(response) ==
    /\ pc = "correct"
    /\ trace' = trace \o AgentCall("correct", "ok")
    /\ nGenerator' = nGenerator + 1
    /\ LET corrected_sql == CleanResponse(response)
       IN  IF PassesGate(corrected_sql)
           THEN /\ current_sql' = current_sql
                /\ output' = [output EXCEPT !.sql_generated = Str(corrected_sql)]
                /\ attempt' = NextAttempt(attempt)
                /\ corrLog' = Append(corrLog, [result |-> "ok", sql |-> Str(corrected_sql)])
                /\ pc' = IF InRange(NextAttempt(attempt)) THEN "validate" ELSE "execute"
           ELSE /\ Fail(output, OrchestrationError(
                           <<"SQL Correction failed to produce valid SQL structure.">>))
                /\ corrLog' = Append(corrLog, [result |-> "gate", sql |-> Str(corrected_sql)])
                /\ UNCHANGED <<current_sql, attempt>>
    /\ UNCHANGED <<clientVars, cache, valLog, genLog, execLog>>

\* variant of Correct without the gate: any answer of the corrector becomes
\* the next draft
Correct_Ungated(response) ==
    /\ pc = "correct"
    /\ trace' = trace \o AgentCall("correct", "ok")
    /\ nGenerator' = nGenerator + 1
    /\ LET corrected_sql == CleanResponse(response)
       IN  /\ current_sql' = corrected_sql
           /\ output' = [output EXCEPT !.sql_generated = Str(corrected_sql)]
           /\ attempt' = NextAttempt(attempt)
           /\ corrLog' = Append(corrLog, [result |-> "ok", sql |-> Str(corrected_sql)])
           /\ pc' = IF InRange(NextAttempt(attempt)) THEN "validate" ELSE "execute"
    /\ UNCHANGED <<clientVars, cache, valLog, genLog, execLog>>

\* _correct_sql: the corrector answers; the cleaned answer goes through the
\* gate; a passing text becomes current_sql and sql_generated; then the next
\* iteration, or step 5 when the range is used up
Correct(response) ==
    /\ pc = "correct"
    /\ trace' = trace \o AgentCall("correct", "ok")
    /\ nGenerator' = nGenerator + 1
    /\ LET corrected_sql == CleanResponse(response)
       IN  IF PassesGate(corrected_sql)
           THEN /\ current_sql' = corrected_sql
                /\ output' = [output EXCEPT !.sql_generated = Str(corrected_sql)]
                /\ attempt' = NextAttempt(attempt)
                /\ corrLog' = Append(corrLog, [result |-> "ok", sql |-> Str(corrected_sql)])
                /\ pc' = IF InRange(NextAttempt(attempt)) THEN "validate" ELSE "execute"
           ELSE /\ Fail(output, OrchestrationError(
                           <<"SQL Correction failed to produce valid SQL structure.">>))
                /\ corrLog' = Append(corrLog, [result |-> "gate", sql |-> Str(corrected_sql)])
                /\ UNCHANGED <<current_sql, attempt>>
    /\ UNCHANGED <<clientVars, cache, valLog, genLog, execLog>>

\* step 5: with sql_final set, _execute_sql calls execute_query(sql_final);
\* otherwise only error_message is set
Execute ==
    /\ pc = "execute"
    /\ IF Truthy(output.sql_final)
       THEN /\ ExecuteQuery(output.sql_final.s)
            /\ execLog' = Append(execLog, [sql |-> output.sql_final.s, result |-> "pending",
                                             error |-> None])
            /\ trace' = Append(trace, Ev("execute_query", "execute", "call", None))
            /\ pc' = "executeCall"
            /\ output' = output
       ELSE /\ output' = [output EXCEPT !.error_message =
                             Str(<<"SQL validation failed: ">> \o Text(output.validation_error))]
            /\ pc' = "returned"
            /\ UNCHANGED <<clientVars, execLog, trace>>
    /\ UNCHANGED <<cache, current_sql, attempt, valLog, corrLog, genLog, nGenerator>>

\* the last entry of execLog gets its result
ExecLogged(result, error) ==
    [execLog EXCEPT ![Len(execLog)] = [@ EXCEPT !.result = result, !.error = error]]

\* execute_query let an exception through
ExecuteRaised ==
    /\ pc = "executeCall" /\ cpc = "done" /\ cret.kind = "raise"
    /\ trace' = trace
    /\ Fail(output, cret.exc)
    /\ execLog' = ExecLogged("raised", cret.exc)
    /\ EndCall
    /\ UNCHANGED <<cache, current_sql, attempt, valLog, corrLog, genLog, nGenerator>>

\* variant of ExecuteFailed that goes on to the explanation
ExecuteFailed_Explains ==
    /\ pc = "executeCall" /\ cpc = "done" /\ cret.kind = "return"
    /\ trace' = trace
    /\ LET r == ExecuteQueryResult(cret)
       IN  /\ Truthy(r.error)
           /\ output' = [output EXCEPT
                           !.results = List(<<>>),
                           !.execution_error = Str(ExecutionErrorMsg(r.error)),
                           !.error_message =
                               Str(<<"Execution Failed: ">> \o ExecutionErrorMsg(r.error))]
    /\ execLog' = ExecLogged("error", cret.error)
    /\ pc' = "explain"
    /\ EndCall
    /\ UNCHANGED <<cache, current_sql, attempt, valLog, corrLog, genLog, nGenerator>>

\* execute_query returned an error: results is the empty list, the error is
\* stored, status stays FAILED
ExecuteFailed ==
    /\ pc = "executeCall" /\ cpc = "done" /\ cret.kind = "return"
    /\ trace' = trace
    /\ LET r == ExecuteQueryResult(cret)
       IN  /\ Truthy(r.error)
           /\ output' = [output EXCEPT
                           !.results = List(<<>>),
                           !.execution_error = Str(ExecutionErrorMsg(r.error)),
                           !.error_message =
                               Str(<<"Execution Failed: ">> \o ExecutionErrorMsg(r.error))]
    /\ execLog' = ExecLogged("error", cret.error)
    /\ pc' = "returned"
    /\ EndCall
    /\ UNCHANGED <<cache, current_sql, attempt, valLog, corrLog, genLog, nGenerator>>

\* variant of ExecuteSucceeded that stores str(None) as execution_error
ExecuteSucceeded_FlagsError ==
    /\ pc = "executeCall" /\ cpc = "done" /\ cret.kind = "return"
    /\ trace' = trace
    /\ LET r == ExecuteQueryResult(cret)
       IN  /\ ~Truthy(r.error)
           /\ output' = [output EXCEPT !.results = r.results,
                                       !.execution_error = Str(<<"None">>),
                                       !.status = "SUCCESS"]
    /\ execLog' = ExecLogged("ok", None)
    /\ pc' = "explain"
    /\ EndCall
    /\ UNCHANGED <<cache, current_sql, attempt, valLog, corrLog, genLog, nGenerator>>

\* execute_query returned rows: status becomes SUCCESS, explanation comes next
ExecuteSucceeded ==
    /\ pc = "executeCall" /\ cpc = "done" /\ cret.kind = "return"
    /\ trace' = trace
    /\ LET r == ExecuteQueryResult(cret)
       IN  /\ ~Truthy(r.error)
           /\ output' = [output EXCEPT !.results = r.results,
                                       !.execution_error = None,
                                       !.status = "SUCCESS"]
    /\ execLog' = ExecLogged("ok", None)
    /\ pc' = "explain"
    /\ EndCall
    /\ UNCHANGED <<cache, current_sql, attempt, valLog, corrLog, genLog, nGenerator>>

\* _explain_sql answers: the explanation is stored
Explain(response) ==
    /\ pc = "explain"
    /\ trace' = trace \o AgentCall("explain", "ok")
    /\ nGenerator' = nGenerator + 1
    /\ output' = [output EXCEPT !.explanation = Str(CleanResponse(response))]
    /\ pc' = "returned"
    /\ UNCHANGED <<clientVars, cache, current_sql, attempt, valLog, corrLog,
                   genLog, execLog>>

\* the marker stored when the explanation could not be produced
ExplanationFailedMarker == <<"(Explanation generation failed)">>

\* variant of ExplainFails that treats the failure as fatal for the run
ExplainFails_Fatal(agentCalled) ==
    /\ pc = "explain"
    /\ trace' = trace \o (IF agentCalled THEN AgentCall("explain", "fail")
                                         ELSE <<Ev("render", "explain", "fail", None)>>)
    /\ nGenerator' = IF agentCalled THEN nGenerator + 1 ELSE nGenerator
    /\ output' = [output EXCEPT !.status = "FAILED",
                                !.error_message = Str(ExplanationFailedMarker)]
    /\ pc' = "returned"
    /\ UNCHANGED <<clientVars, cache, current_sql, attempt, valLog, corrLog,
                   genLog, execLog>>

\* _explain_sql raises (prompt or generator; agentCalled tells which): the
\* except clause around it stores the marker
ExplainFails(agentCalled) ==
    /\ pc = "explain"
    /\ trace' = trace \o (IF agentCalled THEN AgentCall("explain", "fail")
                                         ELSE <<Ev("render", "explain", "fail", None)>>)
    /\ nGenerator' = IF agentCalled THEN nGenerator + 1 ELSE nGenerator
    /\ output' = [output EXCEPT !.explanation = Str(ExplanationFailedMarker)]
    /\ pc' = "returned"
    /\ UNCHANGED <<clientVars, cache, current_sql, attempt, valLog, corrLog,
                   genLog, execLog>>

Next ==
    \/ \E nlq \in NLQs : ProcessNlq(nlq)
    \/ RetrieveSchemaHit
    \/ \E redisFails \in BOOLEAN : RetrieveSchemaMiss(redisFails)
    \/ RetrieveSchemaCacheRaises
    \/ SchemaRaised
    \/ SchemaFailed
    \/ \E redisFails \in BOOLEAN : SchemaFetched(redisFails)
    \/ CacheExpire
    \/ GeneratePromptFails
    \/ GenerateAgentFails
    \/ \E response \in GenResponses : Generate(response)
    \/ Validate
    \/ ValidateRaised
    \/ ValidateSucceeded
    \/ ValidateFailedRetry
    \/ ValidateExhausted
    \/ CorrectPromptFails
    \/ CorrectAgentFails
    \/ \E response \in CorrResponses : Correct(response)
    \/ Execute
    \/ ExecuteRaised
    \/ ExecuteFailed
    \/ ExecuteSucceeded
    \/ \E response \in ExplainResponses : Explain(response)
    \/ \E agentCalled \in BOOLEAN : ExplainFails(agentCalled)
    \/ AttemptConnectFails
    \/ \E e \in ExecExceptions : AttemptExecuteRaises(e)
    \/ \E rows \in RowSetsOf(call.op) : AttemptExecuteOk(rows)

Spec == Init /\ [][Next]_vars

\* ------------------------------------------------------------------------
\* Concurrent callers of the module-global TrinoExecutor
\* (src/src/execution/trino_client.py): each caller runs
\* _execute_with_retry on its own; self.conn is the only state they share,
\* and the code takes no lock.  A step is one read or write of self.conn
\* together with the local work that follows it.
\* ------------------------------------------------------------------------

\* the caller t is at position pos
At(t, pos) == th[t].pc = pos

\* the caller t moves to position pos
Goto(t, pos) == th' = [th EXCEPT ![t].pc = pos]

\* everything but self.conn and the callers
seqVars == <<cpc, call, cattempt, last_exception, cret, tries, runVars, cache>>

\* the except clause of _execute_with_retry for caller t and exception e,
\* raised while self.conn is c; lost tells that the handle went missing
\* under the caller
ThreadOnException(t, e, c, lost) ==
    IF e.type \notin CaughtTypes
    THEN /\ th' = [th EXCEPT ![t] = [@ EXCEPT !.pc = "done", !.ret = Raise(e),
                                              !.lost = lost]]
         /\ conn' = c
    ELSE IF ShouldRetry(e, th[t].attempt)
    THEN /\ conn' = ConnAfterSleep(e, c)
         /\ th' = [th EXCEPT ![t] =
                     [@ EXCEPT
                        !.pc = IF InRetryRange(th[t].attempt + 1) THEN "check" ELSE "done",
                        !.attempt = th[t].attempt + 1,
                        !.ret = IF InRetryRange(th[t].attempt + 1)
                                THEN NoRet ELSE Return(None, None, e),
                        !.lost = lost]]
    ELSE /\ th' = [th EXCEPT ![t] = [@ EXCEPT !.pc = "done",
                                              !.ret = Return(None, None, e),
                                              !.lost = lost]]
         /\ conn' = c

\* a request enters _execute_with_retry
ThreadEnter(t) ==
    /\ At(t, "idle")
    /\ Goto(t, "check")
    /\ UNCHANGED <<conn, seqVars>>

\* line 60: if not self.conn: self._connect()
ThreadCheckConn(t) ==
    /\ At(t, "check")
    /\ Goto(t, IF Truthy(conn) THEN "recheck" ELSE "connect")
    /\ UNCHANGED <<conn, seqVars>>

\* exception classes named in the except clause around the probe of _connect
ProbeCaught == {"TrinoError", "AttributeError", "RequestsConnectionError"}

\* what the probe  self.conn.cursor().execute("SELECT 1")  can raise
ProbeFailures == {TrinoErrorExc, RequestsConnectionErrorExc, OtherExc}

\* what connect(...) can raise: the classes its except clause names
OpenFailures == {TrinoErrorExc, RequestsConnectionErrorExc}

\* _connect, called while self.conn is c, the probe (if made) having the
\* outcome probe and connect(...) (if called) the outcome open; None stands
\* for success.  A handle found there (another caller connected meanwhile)
\* is probed and kept when the probe passes; a probe failure of a caught
\* class sets self.conn = None and goes on to connect(...); any other
\* exception of the probe leaves _connect.  connect(...) sets self.conn, or
\* self.conn is set to None and ConnectionError is raised.
ConnectResult(c, probe, open) ==
    IF Truthy(c) /\ probe = None
    THEN [had |-> TRUE, probe |-> probe, discarded |-> FALSE, opened |-> FALSE,
          raised |-> None, after |-> c, called |-> TRUE]
    ELSE IF Truthy(c) /\ probe.type \notin ProbeCaught
    THEN [had |-> TRUE, probe |-> probe, discarded |-> FALSE, opened |-> FALSE,
          raised |-> probe, after |-> c, called |-> TRUE]
    ELSE [had |-> Truthy(c), probe |-> IF Truthy(c) THEN probe ELSE None,
          discarded |-> Truthy(c), opened |-> TRUE,
          raised |-> IF open = None THEN None
                     ELSE Exc("ConnectionError",
                              <<"Could not establish connection to Trino: ">> \o open.msg),
          after |-> IF open = None THEN Conn ELSE None, called |-> TRUE]

\* line 61: self._connect()
ThreadConnect(t, probe, open) ==
    /\ At(t, "connect")
    /\ LET r == ConnectResult(conn, probe, open)
       IN  /\ conn' = r.after
           /\ th' = [th EXCEPT ![t] =
                       [@ EXCEPT !.cn = r,
                                 !.pc = IF r.raised = None THEN "recheck"
                                                           ELSE "connectRaised"]]
    /\ UNCHANGED seqVars

\* the exception of _connect arrives at the except clause of _execute_with_retry
ThreadConnectRaised(t) ==
    /\ At(t, "connectRaised")
    /\ ThreadOnException(t, th[t].cn.raised, conn, th[t].lost)
    /\ UNCHANGED seqVars

\* line 62: if not self.conn: raise ConnectionError("Trino connection not available.")
ThreadRecheckConn(t) ==
    /\ At(t, "recheck")
    /\ IF Truthy(conn)
       THEN Goto(t, "cursor") /\ conn' = conn
       ELSE ThreadOnException(t, NotAvailableExc, conn, TRUE)
    /\ UNCHANGED seqVars

\* line 65: cursor = self.conn.cursor(); on None this raises AttributeError,
\* which the except clause does not name
ThreadCursor(t) ==
    /\ At(t, "cursor")
    /\ IF Truthy(conn)
       THEN Goto(t, "execute") /\ conn' = conn
       ELSE ThreadOnException(t, AttributeErrorExc, conn, TRUE)
    /\ UNCHANGED seqVars

\* line 67: cursor.execute(sql) raises e
ThreadExecuteRaises(t, e) ==
    /\ At(t, "execute")
    /\ ThreadOnException(t, e, conn, th[t].lost)
    /\ UNCHANGED seqVars

\* lines 67-77: cursor.execute(sql) passes and the result is returned
ThreadExecuteOk(t) ==
    /\ At(t, "execute")
    /\ th' = [th EXCEPT ![t] = [@ EXCEPT !.pc = "done",
                                         !.ret = Return(None, None, None)]]
    /\ UNCHANGED <<conn, seqVars>>

\* the request has its result and ends
ThreadExit(t) ==
    /\ At(t, "done")
    /\ th' = [th EXCEPT ![t] = ThreadIdle]
    /\ UNCHANGED <<conn, seqVars>>

NextConc ==
    \/ \E t \in Threads : ThreadEnter(t)
    \/ \E t \in Threads : ThreadCheckConn(t)
    \/ \E t \in Threads, probe \in ProbeFailures \cup {None},
          open \in OpenFailures \cup {None} : ThreadConnect(t, probe, open)
    \/ \E t \in Threads : ThreadConnectRaised(t)
    \/ \E t \in Threads : ThreadRecheckConn(t)
    \/ \E t \in Threads : ThreadCursor(t)
    \/ \E t \in Threads, e \in ExecExceptions : ThreadExecuteRaises(t, e)
    \/ \E t \in Threads : ThreadExecuteOk(t)
    \/ \E t \in Threads : ThreadExit(t)

SpecConc == Init /\ [][NextConc]_vars

\* ------------------------------------------------------------------------
\* get_schema_info as an operation of its own: called with any target and
\* under any setting of TRINO_CATALOG / TRINO_SCHEMA, on the one client
\* ------------------------------------------------------------------------

\* catalog names (argument or setting); "" stands for None or the empty text
CatalogNames == {"", TRINO_CATALOG}

\* schema names (argument or setting)
SchemaNames == {"", TRINO_SCHEMA, "s2"}

\* get_schema_info(target_catalog, target_schema) under the settings
\* set_catalog, set_schema
CallGetSchemaInfo(target_catalog, target_schema, set_catalog, set_schema) ==
    /\ pc = "idle"
    /\ cpc = "idle"
    /\ GetSchemaInfo(Resolve(target_catalog, set_catalog),
                     Resolve(target_schema, set_schema))
    /\ UNCHANGED <<runVars, cache>>

\* the caller has the pair (schema_str, error), or the exception
TakeSchemaInfo ==
    /\ pc = "idle"
    /\ cpc = "done"
    /\ EndCall
    /\ UNCHANGED <<runVars, cache>>

NextSchema ==
    \/ \E tc, sc \in CatalogNames, ts, ss \in SchemaNames :
          CallGetSchemaInfo(tc, ts, sc, ss)
    \/ AttemptConnectFails
    \/ \E e \in ExecExceptions : AttemptExecuteRaises(e)
    \/ \E rows \in RowSetsOf(call.op) : AttemptExecuteOk(rows)
    \/ TakeSchemaInfo

SpecSchema == Init /\ [][NextSchema]_vars

\* ------------------------------------------------------------------------
\* Properties
\* ------------------------------------------------------------------------

ConnectionFailures == {"ConnectionError", "RequestsConnectionError"}

\* C1: process_nlq never lets an exception out: whatever the cache, the
\* engine client, the prompt renderer and the text generator do, the call
\* returns and the returned status is SUCCESS or FAILED.
C1_NeverRaises ==
    /\ pc # "raised"
    /\ pc = "returned" => output.status \in {"SUCCESS", "FAILED"}

\* a run has returned after the engine client let through an exception that
\* is not an OrchestrationError
C1_Witness ==
    /\ pc = "returned"
    /\ output.status = "FAILED"
    /\ output.error_message = Str(<<"Unexpected server error: ", "HttpError">>)

\* C2: a run calls execute_validation at most AGENT_MAX_RETRIES + 1 times.
C2_ValidationBound == Len(valLog) <= AGENT_MAX_RETRIES + 1

\* a run has returned after AGENT_MAX_RETRIES + 1 calls of execute_validation
C2_Witness ==
    /\ pc = "returned"
    /\ Len(valLog) = AGENT_MAX_RETRIES + 1

\* every one of the AGENT_MAX_RETRIES + 1 validation attempts returned an error
AllAttemptsFailed ==
    /\ Len(valLog) = AGENT_MAX_RETRIES + 1
    /\ \A i \in 1..Len(valLog) : valLog[i].result = "invalid"

\* C3: when all AGENT_MAX_RETRIES + 1 validation attempts fail, the run has
\* returned FAILED with sql_final unset, execute_query never called,
\* validation_error the message of the last attempt's error, and
\* error_message containing that message and the attempt count.
C3_Exhaustion ==
    AllAttemptsFailed =>
        /\ pc = "returned"
        /\ output.status = "FAILED"
        /\ output.sql_final = None
        /\ execLog = <<>>
        /\ output.validation_error =
               Str(ValidationErrorMsg(valLog[Len(valLog)].error))
        /\ output.error_message # None
        /\ Contains(output.error_message.s,
                    ValidationErrorMsg(valLog[Len(valLog)].error))
        /\ Contains(output.error_message.s, <<ToString(AGENT_MAX_RETRIES + 1)>>)

\* all attempts failed, the last one with another error than the one before
C3_Witness ==
    /\ AllAttemptsFailed
    /\ pc = "returned"
    /\ valLog[Len(valLog)].error # valLog[Len(valLog) - 1].error

\* C4: when the first draft validates, there is exactly one validation
\* attempt, no correction, sql_final and sql_generated are the first draft,
\* and once execute_query has reported no error the status is SUCCESS.
C4_FirstDraftValid ==
    (valLog # <<>> /\ valLog[1].result = "valid") =>
        /\ Len(valLog) = 1
        /\ corrLog = <<>>
        /\ genLog # <<>>
        /\ valLog[1].draft = CleanResponse(genLog[1])
        /\ output.sql_final = Str(CleanResponse(genLog[1]))
        /\ output.sql_generated = output.sql_final
        /\ (execLog # <<>> /\ execLog[1].result = "ok") => output.status = "SUCCESS"

\* the first draft validated, the query ran, the explanation failed, the run
\* has returned
C4_Witness ==
    /\ valLog # <<>> /\ valLog[1].result = "valid"
    /\ execLog # <<>> /\ execLog[1].result = "ok"
    /\ pc = "returned"
    /\ output.explanation = Str(<<"(Explanation generation failed)">>)

\* the text is empty or its first six characters are not SELECT in any case
FailsStructure(text) ==
    \/ text = <<>>
    \/ Len(text) < 6
    \/ \E i \in 1..6 : UpperChar(text[i]) # SELECT[i]

\* C5: when the generator's answer, fences stripped, is empty or does not
\* begin with SELECT, the run has returned FAILED with the structural
\* generation error and without any call of execute_validation, execute_query
\* or the corrector.
C5_GenerationGate ==
    (genLog # <<>> /\ FailsStructure(CleanResponse(genLog[1]))) =>
        /\ pc = "returned"
        /\ output.status = "FAILED"
        /\ output.error_message =
               Str(<<"SQL Generation failed to produce valid SQL structure.">>)
        /\ valLog = <<>>
        /\ execLog = <<>>
        /\ corrLog = <<>>
        /\ nGenerator = 1

\* the generator answered a non-empty text that is not a SELECT
C5_Witness ==
    /\ genLog # <<>>
    /\ CleanResponse(genLog[1]) # <<>>
    /\ FailsStructure(CleanResponse(genLog[1]))
    /\ pc = "returned"

\* the first k validation attempts failed and attempt k + 1 succeeded
CorrectedAfter(k) ==
    /\ Len(valLog) >= k + 1
    /\ \A i \in 1..k : valLog[i].result = "invalid"
    /\ valLog[k + 1].result = "valid"

\* C6: when the first k attempts fail (1 <= k <= AGENT_MAX_RETRIES) and
\* attempt k + 1 succeeds, there are exactly k + 1 validation attempts and k
\* corrector calls, every attempt after the first validates the text the
\* corrector returned last, and sql_generated and sql_final are the last
\* corrected text.
C6_CorrectionPath ==
    \A k \in 1..AGENT_MAX_RETRIES :
        CorrectedAfter(k) =>
            /\ Len(valLog) = k + 1
            /\ Len(corrLog) = k
            /\ \A i \in 1..k :
                   /\ corrLog[i].result = "ok"
                   /\ valLog[i + 1].draft = corrLog[i].sql.s
            /\ output.sql_generated = corrLog[k].sql
            /\ output.sql_final = corrLog[k].sql

\* two corrections with different texts, the third attempt succeeded
C6_Witness ==
    /\ CorrectedAfter(2)
    /\ corrLog[1].sql # corrLog[2].sql
    /\ pc = "returned"

\* C7: one call of _execute_with_retry sends its statement at most
\* TRINO_MAX_RETRIES + 1 times, and a failure that is not a connection
\* failure ends the call in that iteration without a sleep; a TrinoError is
\* returned as the error.
C7_SendBound ==
    /\ Cardinality({i \in 1..Len(tries) : tries[i].stmt # None}) <= TRINO_MAX_RETRIES + 1
    /\ \A i \in 1..Len(tries) :
           tries[i].exc \notin (ConnectionFailures \cup {"ok"}) =>
               /\ i = Len(tries)
               /\ ~tries[i].slept
               /\ cpc = "done"
               /\ tries[i].exc = "TrinoError" => cret = Return(None, None, TrinoErrorExc)

\* a TrinoError in a later iteration than the first ended the call
C7_Witness ==
    /\ cpc = "done"
    /\ Len(tries) >= 2
    /\ tries[Len(tries)].exc = "TrinoError"

\* C8: the sleep after the failure of iteration i (from 0) lasts
\* TRINO_RETRY_DELAY * 2^i, and there is a sleep exactly when the failure is a
\* connection failure and i < TRINO_MAX_RETRIES.
C8_Backoff ==
    \A i \in 1..Len(tries) :
        /\ tries[i].slept <=>
               (tries[i].exc \in ConnectionFailures /\ i - 1 < TRINO_MAX_RETRIES)
        /\ tries[i].slept => tries[i].wait = TRINO_RETRY_DELAY * 2 ^ (i - 1)

\* every permitted iteration failed with a connection failure: sleeps after
\* all but the last
C8_Witness ==
    /\ cpc = "done"
    /\ Len(tries) = TRINO_MAX_RETRIES + 1
    /\ tries[Len(tries)].exc \in ConnectionFailures
    /\ tries[1].slept
    /\ tries[2].slept

\* the call ended with a success after k >= 1 connection failures
RecoveredCall ==
    /\ cpc = "done"
    /\ Len(tries) >= 2
    /\ tries[Len(tries)].exc = "ok"
    /\ \A i \in 1..(Len(tries) - 1) : tries[i].exc \in ConnectionFailures

\* C9: when the first k <= TRINO_MAX_RETRIES iterations fail because the
\* connection is unavailable and iteration k + 1 succeeds, the call returns
\* success after k sleeps of TRINO_RETRY_DELAY, 2 * TRINO_RETRY_DELAY, ...,
\* and before every retry the handle was dropped and _connect called again.
C9_Recovery ==
    RecoveredCall =>
        /\ Len(tries) - 1 <= TRINO_MAX_RETRIES
        /\ cret.kind = "return"
        /\ cret.error = None
        /\ \A i \in 1..(Len(tries) - 1) :
               /\ tries[i].slept
               /\ tries[i].wait = TRINO_RETRY_DELAY * 2 ^ (i - 1)
               /\ tries[i].discarded
               /\ ~tries[i + 1].hadConn
               /\ tries[i + 1].connected

\* _connect failed in the first two iterations and the third one succeeded
C9_Witness ==
    /\ RecoveredCall
    /\ Len(tries) = 3
    /\ tries[1].exc = "ConnectionError"
    /\ tries[2].exc = "ConnectionError"

\* C10: every statement sent for execute_validation(sql), in every
\* iteration, is SELECT * FROM (sql) AS _subquery LIMIT 0, never sql itself,
\* and nothing is fetched.
C10_ValidationWrapped ==
    call.op = "validation" =>
        \A i \in 1..Len(tries) :
            tries[i].stmt # None =>
                /\ tries[i].stmt.s =
                       <<"SELECT * FROM (">> \o call.arg \o <<") AS _subquery LIMIT 0">>
                /\ tries[i].stmt.s # call.arg
                /\ ~tries[i].fetched

\* a validation statement was sent again after a connection failure
C10_Witness ==
    /\ call.op = "validation"
    /\ Len(tries) >= 2
    /\ tries[1].stmt # None
    /\ tries[2].stmt # None


\* ---- C11 ----
\* C11: execute_query is called at most once per run, only after a validation
\* attempt of the same run succeeded; the SQL text it receives, and every
\* statement the client sends for it, is sql_final, which is the draft of that
\* successful and last validation attempt; sql_final is never set without a
\* successful validation.
C11_ExecuteOnceValidated ==
    /\ Len(execLog) <= 1
    /\ Cardinality({i \in DOMAIN trace : trace[i].op = "execute_query"}) = Len(execLog)
    /\ output.sql_final # None =>
          /\ valLog # <<>>
          /\ valLog[Len(valLog)].result = "valid"
          /\ \A i \in 1..(Len(valLog) - 1) : valLog[i].result # "valid"
          /\ output.sql_final = Str(valLog[Len(valLog)].draft)
    /\ execLog # <<>> =>
          /\ output.sql_final # None
          /\ execLog[1].sql = output.sql_final.s
    /\ call # NoCall /\ call.op = "query" =>
          /\ output.sql_final # None
          /\ call.arg = output.sql_final.s
          /\ \A i \in DOMAIN tries :
                tries[i].stmt # None => tries[i].stmt = output.sql_final

\* a corrected draft was validated, then executed
C11_Witness ==
    /\ pc = "returned"
    /\ Len(valLog) >= 2
    /\ Len(execLog) = 1
    /\ execLog[1].sql = valLog[Len(valLog)].draft
    /\ valLog[1].draft # valLog[Len(valLog)].draft

\* ---- C12 ----
\* C12: when execute_query reports an error after a successful validation,
\* the run returns FAILED with execution_error set to a text that carries the
\* reported error, error_message wraps execution_error, sql_final and
\* sql_generated keep the validated SQL, results is the empty list, and the
\* explanation stage is not entered.
C12_ExecutionFailure ==
    (execLog # <<>> /\ execLog[1].result = "error") =>
        /\ pc = "returned"
        /\ output.status = "FAILED"
        /\ output.execution_error # None
        /\ Contains(output.execution_error.s, execLog[1].error.msg)
        /\ output.error_message # None
        /\ Contains(output.error_message.s, output.execution_error.s)
        /\ output.sql_final = Str(valLog[Len(valLog)].draft)
        /\ output.sql_generated = output.sql_final
        /\ output.results = List(<<>>)
        /\ output.explanation = None
        /\ \A i \in DOMAIN trace : trace[i].stage # "explain"

\* execute_query failed after the client used up its attempts
C12_Witness ==
    /\ pc = "returned"
    /\ execLog # <<>> /\ execLog[1].result = "error"
    /\ output.execution_error # None
    /\ valLog[Len(valLog)].result = "valid"

\* ---- C13 ----
\* C13: a step in which the explanation stage fails (prompt rendering or the
\* text generator) ends the run with status SUCCESS kept, results and
\* sql_final as they were, error_message unset and explanation equal to the
\* marker; the stage has been entered exactly once in the run.
C13_ExplanationBestEffort ==
    [][ (pc = "explain" /\ trace' # trace /\ trace'[Len(trace')].res = "fail") =>
            /\ pc' = "returned"
            /\ output.status = "SUCCESS" /\ output'.status = "SUCCESS"
            /\ output'.results = output.results
            /\ output'.sql_final = output.sql_final
            /\ output'.sql_final # None
            /\ output'.error_message = None
            /\ output'.explanation = Str(ExplanationFailedMarker)
            /\ Cardinality({i \in DOMAIN trace' :
                    trace'[i].stage = "explain" /\ trace'[i].op = "render"}) = 1
            /\ Cardinality({i \in DOMAIN trace' :
                    trace'[i].stage = "explain" /\ trace'[i].op = "agent"}) <= 1 ]_vars

\* the text generator failed while explaining a query that returned rows
C13_Witness ==
    /\ pc = "returned"
    /\ trace # <<>>
    /\ trace[Len(trace)] = Ev("agent", "explain", "fail", None)
    /\ output.explanation = Str(ExplanationFailedMarker)
    /\ output.results # List(<<>>)


\* ---- C14 ----
\* C14: when introspection returns the empty schema text with no error, the
\* orchestrator takes it as schema_info and goes on to the generation stage;
\* the run does not fail because of the empty schema.
C14_EmptySchemaAccepted ==
    (pc = "returned" /\ output.schema_info = Str(<<>>)) =>
        /\ \E i \in DOMAIN trace : trace[i].stage = "generate"
        /\ output.error_message # Str(<<"Failed to retrieve a valid schema.">>)


\* ---- C15 ----
\* the positions of trace where op was called with outcome res
Calls(op, res) == {i \in DOMAIN trace : trace[i].op = op /\ trace[i].res = res}

\* C15: a run begins with one look-up in the cache.  On a hit the cached text
\* becomes schema_info and get_schema_info is not called.  On a miss
\* get_schema_info is called exactly once; when it returns a text, cache.set
\* is called with the key of (catalog, schema), that text and the configured
\* TTL before any step of the generation stage; when it returns an error the
\* run has returned FAILED with a schema-retrieval error, cache.set was not
\* called, the stored value is the one found at the look-up (or has expired)
\* and the text generator was never called.
C15_SchemaRetrieval ==
    HasCache =>
    /\ Calls("cache.get", "hit") # {} =>
          /\ trace[1] = Ev("cache.get", "schema", "hit", output.schema_info)
          /\ Truthy(output.schema_info)
          /\ \A i \in DOMAIN trace :
                trace[i].op \notin {"get_schema_info", "cache.set"} /\ (i > 1 => trace[i].op # "cache.get")
    /\ Calls("cache.get", "miss") \cup Calls("cache.get", "error") # {} =>
          /\ Calls("cache.get", "miss") \cup Calls("cache.get", "error") = {1}
          /\ Calls("get_schema_info", "call") = {2}
          /\ Cardinality({i \in DOMAIN trace : trace[i].op = "cache.get"}) = 1
    /\ Calls("get_schema_info", "ok") # {} =>
          /\ Calls("get_schema_info", "ok") = {3}
          /\ Len(trace) >= 4
          /\ trace[4].op = "cache.set"
          /\ trace[4].arg = [key |-> <<"schema:", TRINO_CATALOG, ":", TRINO_SCHEMA>>,
                             value |-> trace[3].arg, ttl |-> SCHEMA_CACHE_TTL]
          /\ output.schema_info = trace[3].arg
          /\ trace[4].res = "ok" => cache \in {trace[3].arg, None}
          /\ \A i \in DOMAIN trace : trace[i].stage = "generate" => i > 4
    /\ Calls("get_schema_info", "error") # {} =>
          /\ pc = "returned"
          /\ output.status = "FAILED"
          /\ output.error_message # None
          /\ StartsWith(output.error_message.s, <<"Schema retrieval failed: ">>)
          /\ output.schema_info = None
          /\ \A i \in DOMAIN trace : trace[i].op \notin {"cache.set", "render", "agent"}
          /\ cache \in {trace[1].arg, None}
          /\ nGenerator = 0

\* after a miss the schema was fetched and written, and the generator ran
C15_Witness ==
    /\ HasCache
    /\ Calls("cache.get", "miss") # {}
    /\ Calls("cache.set", "ok") # {}
    /\ Calls("agent", "ok") # {}
    /\ cache = output.schema_info

\* ---- C16 ----
\* C16 (as stated): whatever text get_schema_info produced and the
\* orchestrator wrote with cache.set, cache.get on the key gives back that
\* text while the entry has not expired.
C16_RoundTrip ==
    (HasCache /\ cache # None) => CacheGet(cache) = cache

\* C16 (amended): a non-empty schema text that was written to the cache is
\* given back unchanged by cache.get while the entry has not expired, and a
\* run that hits the cache has it as schema_info; the empty text that was
\* written is read back as a miss (None).
C16_RoundTripNonEmpty ==
    /\ (HasCache /\ cache # None) =>
          /\ cache.tag = "str"
          /\ cache.s # <<>> => CacheGet(cache) = cache
          /\ cache.s = <<>> => CacheGet(cache) = None
    /\ \A i \in Calls("cache.set", "ok") :
          /\ cache \in {trace[i].arg.value, None}
          /\ trace[i].arg.value.s # <<>> => CacheGet(trace[i].arg.value) = trace[i].arg.value
    /\ Calls("cache.get", "hit") # {} =>
          /\ output.schema_info = trace[1].arg
          /\ cache \in {output.schema_info, None}

\* a run took its schema from the cache, where an earlier run had written it
C16_Witness ==
    /\ Calls("cache.get", "hit") # {}
    /\ pc = "generate"
    /\ cache = output.schema_info
    /\ cache.s # <<>>


\* ---- C17 ----
\* C17: with several requests inside _execute_with_retry of the shared
\* executor, no request finds the connection handle missing after its own
\* check of the handle passed: no attempt fails on, or raises from, a handle
\* that another request discarded.
C17_ConcurrentSafety ==
    \A t \in Threads :
        /\ ~th[t].lost
        /\ th[t].ret # Raise(AttributeErrorExc)


\* ---- C18 ----
\* C18: in every returned state, results holds at least one row only if
\* sql_final is set and execution_error is unset.
C18_ResultsImplyExecution ==
    (pc = "returned" /\ output.results # None /\ output.results.l # <<>>) =>
        /\ output.sql_final # None
        /\ output.execution_error = None

\* a run returned rows
C18_Witness ==
    /\ pc = "returned"
    /\ output.results # None
    /\ Len(output.results.l) = 2
    /\ output.sql_final # None

\* ---- C19 ----
\* the corrections of corrLog whose text passes the structural gate
PassingCorrections ==
    {i \in DOMAIN corrLog : corrLog[i].sql # None /\ ~FailsStructure(corrLog[i].sql.s)}

\* the last draft of the run that passed the structural gate, or None
LastPassingDraft ==
    IF PassingCorrections # {}
    THEN corrLog[CHOOSE i \in PassingCorrections :
                    \A j \in PassingCorrections : j <= i].sql
    ELSE IF genLog # <<>> /\ ~FailsStructure(CleanResponse(genLog[1]))
    THEN Str(CleanResponse(genLog[1]))
    ELSE None

\* C19: in every returned state with status FAILED, error_message is a
\* non-empty text, sql_generated is the last draft of the run that passed the
\* structural gate (None when there was none), and sql_final is still the
\* draft of the successful validation when there was one.
C19_FailedKeepsDrafts ==
    (pc = "returned" /\ output.status = "FAILED") =>
        /\ output.error_message # None
        /\ output.error_message.s # <<>>
        /\ output.sql_generated = LastPassingDraft
        /\ \A i \in DOMAIN valLog :
              valLog[i].result = "valid" => output.sql_final = Str(valLog[i].draft)

\* a run failed at execution after a correction: both drafts are kept; and
\* a run failed at validation with a draft to show
C19_Witness ==
    /\ pc = "returned" /\ output.status = "FAILED"
    /\ PassingCorrections # {}
    /\ output.sql_generated # None
    /\ output.sql_final # None
    /\ execLog # <<>> /\ execLog[1].result \in {"error", "raised"}

\* ---- C20 ----
\* C20: a failure of prompt rendering or of the text generator in the
\* generation or the correction stage is the last event of the run: the run
\* has returned FAILED with a non-empty error_message, sql_final is unset,
\* and neither execute_validation nor execute_query is called afterwards.
C20_MandatoryStageFatal ==
    \A i \in DOMAIN trace :
        (trace[i].res = "fail" /\ trace[i].stage \in {"generate", "correct"}) =>
            /\ i = Len(trace)
            /\ pc = "returned"
            /\ output.status = "FAILED"
            /\ output.error_message # None
            /\ output.error_message.s # <<>>
            /\ output.sql_final = None
            /\ cpc = "idle"
            /\ execLog = <<>>
            /\ \A j \in DOMAIN valLog : valLog[j].result # "pending"

\* the text generator failed while correcting a rejected draft
C20_Witness ==
    /\ pc = "returned"
    /\ trace # <<>>
    /\ trace[Len(trace)] = Ev("agent", "correct", "fail", None)
    /\ Len(valLog) = 2


\* ---- C21 ----
\* C21: a failure of the cache never fails the run.  When cache.get fails, or
\* there is no cache client, get_schema_info is called next; when cache.set
\* fails, the fetched text is schema_info and the run goes on to generation;
\* no run has returned FAILED with the look-up in the cache as its last step.
C21_CacheFailureIsMiss ==
    /\ \A i \in Calls("cache.get", "error") \cup Calls("cache.get", "raise") :
          /\ Len(trace) > i
          /\ trace[i + 1] = Ev("get_schema_info", "schema", "call", None)
    /\ (~HasCache /\ trace # <<>>) =>
          trace[1] = Ev("get_schema_info", "schema", "call", None)
    /\ \A i \in Calls("cache.set", "fail") :
          /\ output.schema_info = trace[i].arg.value
          /\ (Len(trace) = i /\ Truthy(trace[i].arg.value)) => pc = "generate"
    /\ (pc = "returned" /\ trace # <<>> /\ trace[Len(trace)].op = "cache.get") =>
          output.status # "FAILED"


\* ---- C22 ----
\* steps the client call in progress can still take, the step in which the
\* caller takes the result included
ClientRemaining ==
    IF cpc = "try" THEN (TRINO_MAX_RETRIES + 1 - cattempt) + 1 ELSE 1

\* steps of a whole client call, from the step after the call to the result
CallSteps == TRINO_MAX_RETRIES + 2

\* upper bound of the steps a run can still take from position p of
\* process_nlq with loop variable a
RECURSIVE Remaining(_, _)
Remaining(p, a) ==
    CASE p = "explain"      -> 1
      [] p = "executeCall"  -> ClientRemaining + Remaining("explain", a)
      [] p = "execute"      -> 1 + CallSteps + Remaining("explain", a)
      [] p = "validate"     -> IF a < AGENT_MAX_RETRIES + 1
                               THEN 1 + CallSteps + Remaining("correct", a)
                               ELSE Remaining("execute", a)
      [] p = "validateCall" -> ClientRemaining + Remaining("correct", a)
      [] p = "correct"      -> 1 + Remaining("validate", a + 1)
      [] p = "generate"     -> 1 + Remaining("validate", 0)
      [] p = "schemaCall"   -> ClientRemaining + Remaining("generate", 0)
      [] p = "schema"       -> 1 + CallSteps + Remaining("generate", 0)
      [] OTHER              -> 0

\* upper bound of the steps the run can still take in this state
Measure == Remaining(pc, attempt)

\* the calls of the client made so far in the run
EngineCalls ==
    {i \in DOMAIN trace :
        trace[i] \in {Ev("get_schema_info", "schema", "call", None),
                      Ev("execute_validation", "validate", "call", None),
                      Ev("execute_query", "execute", "call", None)}}

\* C22: every step of a run lowers a measure that starts at a value fixed by
\* AGENT_MAX_RETRIES and TRINO_MAX_RETRIES, so a run whose collaborator
\* calls return ends after at most that many steps; after every step the
\* run has called the text generator at most AGENT_MAX_RETRIES + 2 times and
\* the client at most AGENT_MAX_RETRIES + 3 times, and the client call in
\* progress has sent at most TRINO_MAX_RETRIES + 1 statements and waited at
\* most TRINO_MAX_RETRIES times, each wait at most
\* TRINO_RETRY_DELAY * 2^(TRINO_MAX_RETRIES - 1).
C22_BoundedRun ==
    [][ /\ pc \notin {"idle", "returned"} =>
              Measure' < Measure
        /\ Measure' <=
              2 + CallSteps + 1 + (AGENT_MAX_RETRIES + 1) * (CallSteps + 2)
                + 1 + CallSteps + 1
        /\ nGenerator' <= AGENT_MAX_RETRIES + 2
        /\ Cardinality(EngineCalls') <= AGENT_MAX_RETRIES + 3
        /\ Len(tries') <= TRINO_MAX_RETRIES + 1
        /\ Cardinality({i \in DOMAIN tries' : tries'[i].slept}) <= TRINO_MAX_RETRIES
        /\ \A i \in DOMAIN tries' :
              tries'[i].slept =>
                  /\ TRINO_MAX_RETRIES >= 1
                  /\ tries'[i].wait <= TRINO_RETRY_DELAY * (2 ^ (TRINO_MAX_RETRIES - 1))
      ]_<<runVars, conn, cpc, call, cattempt, last_exception, cret, tries>>

\* the longest run: every validation attempt used up the client's retries,
\* the last draft passed, and the explanation was given
C22_Witness ==
    /\ pc = "returned"
    /\ output.status = "SUCCESS"
    /\ nGenerator = AGENT_MAX_RETRIES + 2
    /\ Cardinality(EngineCalls) = AGENT_MAX_RETRIES + 3
    /\ \A i \in 1..AGENT_MAX_RETRIES :
          valLog[i].error # None /\ valLog[i].error.type \in ConnectionFailures


\* ---- C23 ----
\* the place of a stage in the order of process_nlq
StageRank(stage) ==
    CASE stage = "schema"   -> 1
      [] stage = "generate" -> 2
      [] stage \in {"validate", "correct"} -> 3
      [] stage = "execute"  -> 4
      [] stage = "explain"  -> 5

\* the positions of trace that belong to stage
InStage(stage) == {i \in DOMAIN trace : trace[i].stage = stage}

\* the calls of a run are in stage order, and a stage has events only when
\* the stage before it succeeded
StagesInOrder ==
    /\ \A i, j \in DOMAIN trace :
          i < j => StageRank(trace[i].stage) <= StageRank(trace[j].stage)
    /\ InStage("generate") # {} =>
          /\ Truthy(output.schema_info)
          /\ \E i \in InStage("schema") :
                trace[i].res \in {"hit", "ok"} /\ trace[i].arg = output.schema_info
    /\ InStage("validate") # {} =>
          /\ \E i \in InStage("generate") : trace[i] = Ev("agent", "generate", "ok", None)
          /\ ~FailsStructure(CleanResponse(genLog[1]))
    /\ \A i \in InStage("correct") :
          /\ i > 1
          /\ trace[i].op = "render" => trace[i - 1].op = "execute_validation"
          /\ trace[i].op = "agent" => trace[i - 1] = Ev("render", "correct", "ok", None)
    /\ InStage("execute") # {} =>
          /\ valLog # <<>> /\ valLog[Len(valLog)].result = "valid"
          /\ \A i \in InStage("execute") :
                i > 1 /\ trace[i - 1].op = "execute_validation"
    /\ InStage("explain") # {} =>
          /\ execLog # <<>> /\ execLog[1].result = "ok"
          /\ output.status = "SUCCESS"
    /\ output.status = "SUCCESS" =>
          /\ \A i \in DOMAIN trace :
                trace[i].res \in {"fail", "error", "raise"} =>
                    trace[i].stage = "explain" \/ trace[i].op \in {"cache.get", "cache.set"}
          /\ \A i \in 1..(Len(valLog) - 1) : valLog[i].result = "invalid"
          /\ valLog[Len(valLog)].result = "valid"
          /\ output.error_message = None

\* C23: a run that has returned FAILED stays as it is, with no further call
\* of a collaborator, until process_nlq is called again; the status of a run
\* is never SUCCESS after a failure of a stage before the explanation; and
\* the calls of a run follow the order schema retrieval, generation,
\* validation and correction, execution, explanation, each stage beginning
\* only after the one before it succeeded.
C23_FailedAbsorbing ==
    /\ []StagesInOrder
    /\ [][ /\ (pc = "returned" /\ output.status = "FAILED" /\ pc' = "returned") =>
                  UNCHANGED <<runVars, clientVars>>
           /\ (output.status = "FAILED" /\ output.error_message # None) =>
                  (output'.status = "FAILED" \/ pc' = "schema") ]_vars

\* a run failed at the second validation and was followed by a run that
\* reached the explanation
C23_Witness ==
    /\ pc = "returned"
    /\ output.status = "SUCCESS"
    /\ InStage("explain") # {}
    /\ InStage("correct") # {}
    /\ cache # None /\ HasCache
    /\ trace[1].res = "hit"


\* ---- C24 ----
\* C24: a call of _connect that finds a connection probes it; when the probe
\* passes the connection is kept and connect(...) is not called; when the
\* probe fails, whatever the failure, the connection is discarded and
\* connect(...) is called; when connect(...) fails, ConnectionError is raised
\* and self.conn is None.
C24_ConnectContract ==
    \A t \in Threads :
        LET c == th[t].cn
        IN  c.called =>
              /\ (c.had /\ c.probe = None) =>
                    ~c.opened /\ ~c.discarded /\ c.after = Conn /\ c.raised = None
              /\ (c.had /\ c.probe # None) => c.discarded /\ c.opened
              /\ ~c.had => c.opened
              /\ (c.opened /\ c.after # Conn) =>
                    /\ c.after = None
                    /\ c.raised # None
                    /\ c.raised.type = "ConnectionError"
              /\ (c.opened /\ c.after = Conn) => c.raised = None


\* ---- C25 ----
\* the pair get_schema_info hands back for the finished call
SchemaPair == SchemaInfoResult(cret, call.arg[2])

RECURSIVE Ascending(_)
Ascending(S) ==
    IF S = {} THEN <<>>
    ELSE LET m == CHOOSE x \in S : \A y \in S : x <= y
         IN  <<m>> \o Ascending(S \ {m})

\* the table names of rows in the order of first appearance
RECURSIVE FirstAppearances(_, _)
FirstAppearances(rows, seen) ==
    IF rows = <<>> THEN <<>>
    ELSE IF Head(rows)[1] \in seen THEN FirstAppearances(Tail(rows), seen)
    ELSE <<Head(rows)[1]>> \o FirstAppearances(Tail(rows), seen \cup {Head(rows)[1]})

\* text is the rendering of rows for schema: one block
\*   TABLE schema.table ( ... )
\* per table of rows, in the order of first appearance, and one entry
\* "column type" per row, in the order of the rows, inside the block of the
\* row's table; every block is opened once and closed once
RendersRows(text, rows, schema) ==
    LET heads   == Ascending({i \in DOMAIN text : text[i] = "TABLE "})
        entries == Ascending({i \in DOMAIN text : text[i] = "  "})
        opens   == {i \in DOMAIN text : text[i] = " ("}
        closes  == {i \in DOMAIN text : text[i] = ")"}
        tables  == FirstAppearances(rows, {})
        \* the end of the block that begins at heads[k]
        blockEnd(k) == IF k < Len(heads) THEN heads[k + 1] - 1 ELSE Len(text)
    IN  /\ Len(heads) = Len(tables)
        /\ \A k \in DOMAIN heads :
              /\ SubSeq(text, heads[k], heads[k] + 5) =
                    <<"TABLE ", schema, ".", tables[k], " (", "\n">>
              /\ Cardinality({i \in opens : heads[k] <= i /\ i <= blockEnd(k)}) = 1
              /\ Cardinality({i \in closes : heads[k] <= i /\ i <= blockEnd(k)}) = 1
              /\ \A i \in closes :
                    (heads[k] <= i /\ i <= blockEnd(k)) =>
                        \A j \in DOMAIN entries :
                            (heads[k] <= entries[j] /\ entries[j] <= blockEnd(k)) =>
                                entries[j] < i
        /\ Len(entries) = Len(rows)
        /\ \A j \in DOMAIN entries :
              /\ SubSeq(text, entries[j] + 1, entries[j] + 3) =
                    <<rows[j][2], " ", rows[j][3]>>
              /\ \E k \in DOMAIN heads :
                    /\ heads[k] < entries[j] /\ entries[j] <= blockEnd(k)
                    /\ tables[k] = rows[j][1]
        /\ text[Len(text)] = ";" /\ text[Len(text) - 1] = ")"

\* C26: when get_schema_info has fetched a non-empty row sequence (rows of
\* one table adjacent, as the ORDER BY of the statement delivers them), the
\* text it returns has exactly one block per distinct table, in the order
\* the tables first appear, each block listing the columns of its table as
\* "name type" entries in the order of the rows, each block opened and
\* closed by one pair of parentheses.
C26_SchemaRendering ==
    (cpc = "done" /\ call.op = "schema" /\ cret.kind = "return"
       /\ cret.error = None /\ Truthy(cret.rows)) =>
        /\ SchemaPair.error = None
        /\ RendersRows(SchemaPair.schema_str.s, cret.rows.l, call.arg[2])

\* two tables, the second with two columns, under a schema given as argument
C26_Witness ==
    /\ cpc = "done" /\ call.op = "schema" /\ cret.kind = "return"
    /\ cret.error = None /\ Truthy(cret.rows)
    /\ call.arg[2] = "s2"
    /\ Len(cret.rows.l) = 3
    /\ Len(FirstAppearances(cret.rows.l, {})) = 2


\* ---- C27 ----
\* C27: when the k-th answer of the corrector, fences stripped, is empty or
\* does not begin with SELECT, the run has returned FAILED with the
\* structural correction error; it was the last corrector call and no
\* validation attempt came after it (k attempts in all), nothing was
\* executed, sql_final is unset, and sql_generated and validation_error are
\* the draft of attempt k and the error that attempt got.
C27_CorrectionGate ==
    \A k \in DOMAIN corrLog :
        (corrLog[k].sql # None /\ FailsStructure(corrLog[k].sql.s)) =>
            /\ pc = "returned"
            /\ output.status = "FAILED"
            /\ output.error_message =
                   Str(<<"SQL Correction failed to produce valid SQL structure.">>)
            /\ k = Len(corrLog)
            /\ Len(valLog) = k
            /\ execLog = <<>>
            /\ output.sql_final = None
            /\ output.sql_generated = Str(valLog[k].draft)
            /\ output.validation_error = Str(ValidationErrorMsg(valLog[k].error))

\* the second answer of the corrector is a non-empty text that is not a
\* SELECT, after a first correction that passed the gate
C27_Witness ==
    /\ Len(corrLog) = 2
    /\ corrLog[1].result = "ok"
    /\ corrLog[2].sql # None
    /\ corrLog[2].sql.s # <<>>
    /\ FailsStructure(corrLog[2].sql.s)
    /\ output.sql_generated = corrLog[1].sql
    /\ pc = "returned"


\* ---- C28 ----
\* C28: in every state process_nlq returns with status SUCCESS, sql_final is
\* set, begins with the SELECT keyword (in any case) and equals
\* sql_generated; results is set; error_message, execution_error and
\* validation_error are unset, whatever earlier attempts recorded.
C28_SuccessState ==
    (pc = "returned" /\ output.status = "SUCCESS") =>
        /\ output.sql_final # None
        /\ ~FailsStructure(output.sql_final.s)
        /\ output.sql_final = output.sql_generated
        /\ output.results # None
        /\ output.error_message = None
        /\ output.execution_error = None
        /\ output.validation_error = None

\* a SUCCESS after a failed first attempt, whose error was recorded
C28_Witness ==
    /\ pc = "returned" /\ output.status = "SUCCESS"
    /\ Len(valLog) >= 2
    /\ valLog[1].result = "invalid"
    /\ valLog[1].error # None


\* ---- C29 ----
\* C29: an iteration of _execute_with_retry leaves self.conn at None, after
\* having had or opened a connection, only when the failure was transient and
\* a retry follows; when the call returns an error, the handle is the one the
\* failed attempt had or opened (or still none when no connection could be
\* opened); nothing outside an iteration changes the handle, and a call that
\* begins with a handle runs its first attempt on it without _connect.
C29_HandleKept ==
    [][ LET t == tries'[Len(tries')]
            iteration == cpc = "try" /\ Len(tries') = Len(tries) + 1
        IN  /\ ~iteration => conn' = conn
            /\ iteration =>
                  /\ (conn' = None /\ (conn # None \/ t.stmt # None)) =>
                        /\ t.exc \in {"RequestsConnectionError", "ConnectionError"}
                        /\ Len(tries') - 1 < TRINO_MAX_RETRIES
                        /\ cpc' = "try"
                  /\ (cpc' = "done" /\ cret'.kind = "return" /\ cret'.error # None) =>
                        /\ conn' = (IF t.stmt # None THEN Conn ELSE conn)
                        /\ ~t.discarded
                  /\ (tries = <<>> /\ Truthy(conn)) =>
                        (t.hadConn /\ ~t.connected)
      ]_vars

\* the last permitted attempt reconnected and failed with a connection-level
\* error: the error is returned and the new handle is kept
C29_Witness ==
    /\ cpc = "done" /\ cret.kind = "return" /\ cret.error # None
    /\ cret.error.type = "RequestsConnectionError"
    /\ Len(tries) = TRINO_MAX_RETRIES + 1
    /\ tries[Len(tries)].connected
    /\ Truthy(conn)


\* ---- C30 ----
\* upper bound of the validation statements the run can still send to the
\* engine in this state
ValidationBudget ==
    CASE pc \in {"schema", "schemaCall", "generate"} ->
             (AGENT_MAX_RETRIES + 1) * (TRINO_MAX_RETRIES + 1)
      [] pc = "validate" ->
             IF attempt < AGENT_MAX_RETRIES + 1
             THEN (AGENT_MAX_RETRIES + 1 - attempt) * (TRINO_MAX_RETRIES + 1)
             ELSE 0
      [] pc = "validateCall" ->
             (IF cpc = "try" THEN TRINO_MAX_RETRIES + 1 - cattempt ELSE 0)
               + (AGENT_MAX_RETRIES - attempt) * (TRINO_MAX_RETRIES + 1)
      [] pc = "correct" ->
             (AGENT_MAX_RETRIES - attempt) * (TRINO_MAX_RETRIES + 1)
      [] OTHER -> 0

\* the step is an iteration of _execute_with_retry that sends the statement
\* of a validation call
SendsValidation ==
    /\ cpc = "try" /\ call.is_validation
    /\ Len(tries') = Len(tries) + 1
    /\ tries'[Len(tries')].stmt # None

\* C30: whatever error execute_validation returns, a connection error
\* returned after the client's retries included, the attempt counts as one
\* failed attempt: the error is recorded in validation_error and, while
\* attempts remain, the corrector is called with the draft as it was and
\* that error; after the last attempt the run fails with the exhaustion
\* error.  A returned connection error has used all TRINO_MAX_RETRIES + 1
\* iterations of its call.  Every validation statement sent lowers a budget
\* that starts at (AGENT_MAX_RETRIES + 1) * (TRINO_MAX_RETRIES + 1) and that
\* no step of the run raises, so a run sends at most that many.
C30_ErrorKindsAlike ==
    /\ [](/\ pc = "correct" =>
               /\ Len(valLog) = attempt + 1
               /\ attempt < AGENT_MAX_RETRIES
               /\ valLog[Len(valLog)].result = "invalid"
               /\ current_sql = valLog[Len(valLog)].draft
               /\ output.sql_generated = Str(current_sql)
               /\ output.validation_error =
                      Str(ValidationErrorMsg(valLog[Len(valLog)].error))
          /\ \A i \in DOMAIN valLog :
               valLog[i].result = "invalid" =>
                  /\ i < Len(valLog) =>
                        /\ Len(corrLog) >= i
                        /\ corrLog[i].result = "ok"
                  /\ (i = Len(valLog) /\ pc = "returned") =>
                        /\ output.status = "FAILED"
                        /\ output.validation_error =
                               Str(ValidationErrorMsg(valLog[i].error))
                        /\ i <= AGENT_MAX_RETRIES =>
                              (Len(corrLog) = i /\ corrLog[i].result # "ok")
                        /\ i = AGENT_MAX_RETRIES + 1 =>
                              /\ Len(corrLog) = AGENT_MAX_RETRIES
                              /\ output.error_message =
                                     Str(ExhaustedMsg(ValidationErrorMsg(valLog[i].error)))
          /\ (cpc = "done" /\ call.is_validation /\ cret.kind = "return"
                /\ cret.error # None /\ IsTransient(cret.error)) =>
               Len(tries) = TRINO_MAX_RETRIES + 1)
    /\ [][ /\ pc \notin {"idle", "returned"} => ValidationBudget' <= ValidationBudget
           /\ ValidationBudget' <= (AGENT_MAX_RETRIES + 1) * (TRINO_MAX_RETRIES + 1)
           /\ SendsValidation =>
                 /\ pc = "validateCall"
                 /\ ValidationBudget' < ValidationBudget
         ]_vars

\* execute_validation gave up on a connection that could not be opened, in
\* the first attempt: the corrector is about to be called with the draft of
\* the generator and the connection error
C30_Witness ==
    /\ pc = "correct"
    /\ Len(valLog) = 1
    /\ valLog[1].error # None
    /\ valLog[1].error.type = "ConnectionError"
    /\ current_sql = valLog[1].draft
    /\ output.validation_error = Str(ValidationErrorMsg(valLog[1].error))


\* ---- C31 ----
\* C31: an empty schema text that get_schema_info returned is handed to
\* cache.set like any other; a run whose look-up finds the empty text stored
\* takes it as a miss and calls get_schema_info next, and no step of the
\* schema stage that starts from a stored empty text adopts it as
\* schema_info or goes on to the generation stage.
C31_EmptyCachedIsMiss ==
    /\ [](HasCache =>
            /\ \A i \in Calls("get_schema_info", "ok") :
                  trace[i].arg = Str(<<>>) =>
                     /\ Len(trace) > i
                     /\ trace[i + 1].op = "cache.set"
                     /\ trace[i + 1].arg.value = Str(<<>>)
                     /\ trace[i + 1].res = "ok" => cache \in {Str(<<>>), None}
            /\ (trace # <<>> /\ trace[1].op = "cache.get"
                  /\ trace[1].arg = Str(<<>>)) =>
                  /\ trace[1].res \in {"miss", "error"}
                  /\ Len(trace) >= 2
                  /\ trace[2] = Ev("get_schema_info", "schema", "call", None)
                  /\ Calls("cache.get", "hit") = {})
    /\ [][ (pc = "schema" /\ HasCache /\ cache = Str(<<>>)) =>
              /\ pc' # "generate"
              /\ output'.schema_info = None
              /\ pc' = "schemaCall" =>
                    (cpc' = "try" /\ call'.op = "schema")
         ]_vars

\* a run found the empty text an earlier run had stored, and has fetched
\* the schema again
C31_Witness ==
    /\ HasCache
    /\ Len(trace) >= 3
    /\ trace[1] = Ev("cache.get", "schema", "miss", Str(<<>>))
    /\ trace[2] = Ev("get_schema_info", "schema", "call", None)
    /\ trace[3].op = "get_schema_info" /\ trace[3].res = "ok"
    /\ trace[3].arg # Str(<<>>)
    /\ pc = "generate"

====
